---- MODULE Spec2Model ----
(***************************************************************************)
(* Model of the application lifecycle of yunohost (src/yunohost/app.py):   *)
(* app_install with its rollback, app_remove, app_change_url, the          *)
(* location checks (app_checkurl, app_register_url) and the argument       *)
(* resolver (_parse_action_args_in_yunohost_format).                       *)
(*                                                                         *)
(* Python strings are sequences of one-character strings, so that          *)
(* startswith, strip, index, upper, int() and str() are computed as the    *)
(* code computes them.                                                     *)
(***************************************************************************)
EXTENDS Integers, Sequences, FiniteSets, TLC

VARIABLES
    dirs,    \* APPS_SETTING_PATH: instance name -> directory content
    perms,   \* permission registry: instance name -> URLs of its 'main' permission
    hooks,   \* instance names having hooks registered
    call,    \* the invocation in progress or last returned: operation, position, locals
    nops,    \* operations started so far
    rin,     \* what a part of the program run on its own is given
    rout     \* what it has produced: a result, the locals of invocations, a directory

vars == <<dirs, perms, hooks, call, nops, rin, rout>>

----------------------------------------------------------------------------
(* Bounds *)

\* highest instance number an install may form (app, app__2, ...)
MaxInstanceNumber == 2

\* operations a behaviour may start
MaxOps == 3

----------------------------------------------------------------------------
(* Python string primitives *)

\* s.startswith(p)
StartsWith(s, p) == Len(p) <= Len(s) /\ SubSeq(s, 1, Len(p)) = p

\* s.lstrip(chars)
RECURSIVE LStrip(_, _)
LStrip(s, chars) ==
    IF s # <<>> /\ Head(s) \in chars THEN LStrip(Tail(s), chars) ELSE s

\* s.rstrip(chars)
RECURSIVE RStrip(_, _)
RStrip(s, chars) ==
    IF s # <<>> /\ s[Len(s)] \in chars
    THEN RStrip(SubSeq(s, 1, Len(s) - 1), chars)
    ELSE s

\* s.strip(chars)
Strip(s, chars) == RStrip(LStrip(s, chars), chars)

\* characters removed by strip() without argument
Whitespace == {" "}

\* s.find(sub) + 1: position of the first occurrence of sub in s, 0 if none
Find(s, sub) ==
    LET hits == {i \in 1..(Len(s) - Len(sub) + 1) :
                    SubSeq(s, i, i + Len(sub) - 1) = sub}
    IN  IF hits = {} THEN 0 ELSE CHOOSE i \in hits : \A j \in hits : i <= j

\* sub in s
Contains(s, sub) == Find(s, sub) # 0

\* the multi-instance separator
SEP == <<"_", "_">>

DigitChars == <<"0", "1", "2", "3", "4", "5", "6", "7", "8", "9">>

IsDigit(c) == \E i \in 1..10 : DigitChars[i] = c

DigitVal(c) == (CHOOSE i \in 1..10 : DigitChars[i] = c) - 1

\* str(n) for n >= 0
RECURSIVE Str(_)
Str(n) ==
    IF n < 10 THEN <<DigitChars[n + 1]>>
    ELSE Str(n \div 10) \o <<DigitChars[(n % 10) + 1]>>

\* int(s) for a string of digits
RECURSIVE ParseInt(_)
ParseInt(s) ==
    IF Len(s) = 1 THEN DigitVal(s[1])
    ELSE 10 * ParseInt(SubSeq(s, 1, Len(s) - 1)) + DigitVal(s[Len(s)])

LowerOf == [c \in {"D", "E", "Y", "N", "S", "O", "T", "R", "U", "F", "A", "L"} |->
              CASE c = "D" -> "d" [] c = "E" -> "e" [] c = "Y" -> "y"
                [] c = "N" -> "n" [] c = "S" -> "s" [] c = "O" -> "o"
                [] c = "T" -> "t" [] c = "R" -> "r" [] c = "U" -> "u"
                [] c = "F" -> "f" [] c = "A" -> "a" [] c = "L" -> "l"]

\* s.lower()
Lower(s) == [i \in 1..Len(s) |-> IF s[i] \in DOMAIN LowerOf THEN LowerOf[s[i]] ELSE s[i]]

UpperOf == [c \in {"d", "o", "m", "a", "i", "n", "p", "t", "h", "x", "b"} |->
              CASE c = "d" -> "D" [] c = "o" -> "O" [] c = "m" -> "M"
                [] c = "a" -> "A" [] c = "i" -> "I" [] c = "n" -> "N"
                [] c = "p" -> "P" [] c = "t" -> "T" [] c = "h" -> "H"
                [] c = "x" -> "X" [] c = "b" -> "B"]

\* s.upper()
Upper(s) == [i \in 1..Len(s) |-> IF s[i] \in DOMAIN UpperOf THEN UpperOf[s[i]] ELSE s[i]]

\* the elements of a sequence
Range(s) == {s[i] : i \in 1..Len(s)}

\* the orders in which os.listdir may return a set of names
RECURSIVE Listings(_)
Listings(S) ==
    IF S = {} THEN {<<>>}
    ELSE UNION {{<<x>> \o s : s \in Listings(S \ {x})} : x \in S}

----------------------------------------------------------------------------
(* Python values handled by the argument resolver: a tag and a payload *)

NONE == <<"None", <<>>>>
PStr(s) == <<"str", s>>
PInt(n) == <<"int", n>>
PBool(b) == <<"bool", b>>

IsStr(v) == v[1] = "str"
EMPTY == PStr(<<>>)

\* truth value of a Python object (if x:)
Truthy(v) ==
    CASE v[1] = "None" -> FALSE
      [] v[1] = "str"  -> v[2] # <<>>
      [] v[1] = "int"  -> v[2] # 0
      [] v[1] = "bool" -> v[2]

\* str(x)
PyStr(v) ==
    CASE v[1] = "None" -> <<"N", "o", "n", "e">>
      [] v[1] = "str"  -> v[2]
      [] v[1] = "int"  -> Str(v[2])
      [] v[1] = "bool" -> IF v[2] THEN <<"T", "r", "u", "e">> ELSE <<"F", "a", "l", "s", "e">>

\* x == y of Python: True == 1 and False == 0, a string equals only a string
PyEq(v, w) ==
    LET num(x) == IF x[1] = "bool" THEN (IF x[2] THEN 1 ELSE 0) ELSE x[2]
    IN  IF v[1] \in {"int", "bool"} /\ w[1] \in {"int", "bool"}
        THEN num(v) = num(w)
        ELSE v = w

\* x in list
PyIn(v, list) == \E i \in 1..Len(list) : PyEq(v, list[i])

\* an ordered dict as a sequence of <<key, value>>, d[k] = v
OdSet(d, k, v) ==
    IF \E i \in 1..Len(d) : d[i][1] = k
    THEN [i \in 1..Len(d) |-> IF d[i][1] = k THEN <<k, v>> ELSE d[i]]
    ELSE Append(d, <<k, v>>)

OdHas(d, k) == \E i \in 1..Len(d) : d[i][1] = k

OdGet(d, k) == d[CHOOSE i \in 1..Len(d) : d[i][1] = k][2]

\* d.values()
OdValues(d) == [i \in 1..Len(d) |-> d[i][2]]

\* d.keys()
OdKeys(d) == [i \in 1..Len(d) |-> d[i][1]]

----------------------------------------------------------------------------
(* Locations: domain.py helpers used by app.py, and normalize_url_path *)

\* normalize_url_path(url_path)
NormalizeUrlPath(url_path) ==
    IF Strip(Strip(url_path, {"/"}), Whitespace) # <<>>
    THEN <<"/">> \o Strip(Strip(url_path, {"/"}), Whitespace) \o <<"/">>
    ELSE <<"/">>

HTTPS == <<"h", "t", "t", "p", "s", ":", "/", "/">>
HTTP == <<"h", "t", "t", "p", ":", "/", "/">>

\* s[n:]
From(s, n) == SubSeq(s, n + 1, Len(s))

\* _normalize_domain_path(domain, path), as test_normalize_domain_path fixes it:
\* the scheme and the trailing slashes of the domain are dropped, the path
\* gets one leading slash and no trailing one
NormalizeDomainPath(domain, path) ==
    LET d1 == IF StartsWith(domain, HTTPS) THEN From(domain, Len(HTTPS))
              ELSE IF StartsWith(domain, HTTP) THEN From(domain, Len(HTTP))
              ELSE domain
    IN  <<RStrip(d1, {"/"}), <<"/">> \o Strip(path, {"/"})>>

\* a path in the form the conflict rule compares: one leading, one trailing slash
Canonical(path) ==
    IF Strip(path, {"/"}) = <<>> THEN <<"/">>
    ELSE <<"/">> \o Strip(path, {"/"}) \o <<"/">>

\* the conflict rule of the specification: equal, or one a prefix of the
\* other at a slash boundary
PathsConflict(p, q) ==
    \/ StartsWith(Canonical(p), Canonical(q))
    \/ StartsWith(Canonical(q), Canonical(p))

\* app_map(auth, raw=True) over the directories listed in the order ls:
\* result[domain][path] = id, a later directory replacing an earlier one
\* at the same domain and path.  settings: name -> settings.
RECURSIVE AppMapOver(_, _, _)
AppMapOver(ls, settings, result) ==
    IF ls = <<>> THEN result
    ELSE LET st == IF settings[Head(ls)]["id"] = Head(ls)
                   THEN settings[Head(ls)]
                   ELSE [k \in {} |-> <<>>]
             dom == st["domain"]
             path == IF "path" \in DOMAIN st THEN st["path"] ELSE <<"/">>
         IN  IF "domain" \notin DOMAIN st
             THEN AppMapOver(Tail(ls), settings, result)
             ELSE AppMapOver(Tail(ls), settings,
                     {e \in result : ~(e[1] = dom /\ e[2] = path)}
                        \cup {<<dom, path, st["id"]>>})

\* _get_conflicting_apps(auth, domain, path): the entries of the map on the
\* domain whose path conflicts with the requested one
GetConflictingApps(appmap, domain, path) ==
    {e \in appmap : e[1] = domain /\ PathsConflict(path, e[2])}

----------------------------------------------------------------------------
(* _parse_action_args_in_yunohost_format *)

\* an error raised to the caller: MoulinetteError(errno, m18n key)
Err(errno, key) == [errno |-> errno, key |-> key]
NoErr == Err("", "")

YES == <<"y", "e", "s">>
NO == <<"n", "o">>

\* the strings the boolean type accepts
TrueStrings == <<PStr(<<"1">>), PStr(YES), PStr(<<"y">>)>>
FalseStrings == <<PStr(<<"0">>), PStr(NO), PStr(<<"n">>)>>

\* fault: the default of a boolean is left as declared
TransposedDefault_Kept(arg) == arg.default

\* arg_default as the loop sees it before looking for a value: the
\* boolean type transposes it to 1 or 0, 0 when none is declared
TransposedDefault(arg) ==
    IF arg.type = "boolean"
    THEN (IF Truthy(arg.default) THEN PInt(1) ELSE PInt(0))
    ELSE arg.default

\* arg_default once the prompt has been prepared: a domain argument that is
\* asked takes the main domain as its default
AskDefault(arg, ctx) ==
    IF arg.type = "domain" THEN PStr(ctx.maindomain) ELSE TransposedDefault(arg)

\* msignals.prompt: the line read, or None when no interactive channel exists
\* (NotImplementedError)
Prompt(arg, ctx) ==
    IF ctx.interactive /\ arg.name \in DOMAIN ctx.answers
    THEN PStr(ctx.answers[arg.name])
    ELSE NONE

\* "Attempt to retrieve argument value"
RetrieveValue(arg, args, ctx) ==
    IF arg.name \in DOMAIN args THEN args[arg.name]
    ELSE IF arg.ask
         THEN IF Prompt(arg, ctx) \in {EMPTY, NONE} /\ AskDefault(arg, ctx) # NONE
              THEN AskDefault(arg, ctx)
              ELSE Prompt(arg, ctx)
         ELSE IF TransposedDefault(arg) # NONE THEN TransposedDefault(arg)
              ELSE NONE

\* fault: a domain argument takes any string
ValidateType_AnyDomain(arg, v, ctx) ==
    CASE arg.type = "domain" ->
            IF IsStr(v) THEN [ok |-> TRUE, v |-> v]
            ELSE [ok |-> FALSE, err |-> Err("EINVAL", "app_argument_invalid")]
      [] arg.type = "user" ->
            IF IsStr(v) /\ v[2] \in ctx.users THEN [ok |-> TRUE, v |-> v]
            ELSE [ok |-> FALSE, err |-> Err("EINVAL", "app_argument_invalid")]
      [] arg.type = "app" ->
            \* _is_installed(v): os.path.isdir(APPS_SETTING_PATH + v)
            IF IsStr(v) /\ (v[2] = <<>> \/ v[2] \in ctx.installed) THEN [ok |-> TRUE, v |-> v]
            ELSE [ok |-> FALSE, err |-> Err("EINVAL", "app_argument_invalid")]
      [] arg.type = "boolean" ->
            IF v[1] = "bool" THEN [ok |-> TRUE, v |-> IF v[2] THEN PInt(1) ELSE PInt(0)]
            ELSE IF PyIn(PStr(Lower(PyStr(v))), TrueStrings) THEN [ok |-> TRUE, v |-> PInt(1)]
            ELSE IF PyIn(PStr(Lower(PyStr(v))), FalseStrings) THEN [ok |-> TRUE, v |-> PInt(0)]
            ELSE [ok |-> FALSE, err |-> Err("EINVAL", "app_argument_choice_invalid")]
      [] arg.type = "password" ->
            IF IsStr(v) /\ v[2] \in ctx.strong THEN [ok |-> TRUE, v |-> v]
            ELSE [ok |-> FALSE, err |-> Err("EINVAL", "password_too_simple")]
      [] OTHER -> [ok |-> TRUE, v |-> v]

\* "Validate argument type": the value kept, or the error raised
ValidateType(arg, v, ctx) ==
    CASE arg.type = "domain" ->
            IF IsStr(v) /\ v[2] \in ctx.domains THEN [ok |-> TRUE, v |-> v]
            ELSE [ok |-> FALSE, err |-> Err("EINVAL", "app_argument_invalid")]
      [] arg.type = "user" ->
            IF IsStr(v) /\ v[2] \in ctx.users THEN [ok |-> TRUE, v |-> v]
            ELSE [ok |-> FALSE, err |-> Err("EINVAL", "app_argument_invalid")]
      [] arg.type = "app" ->
            \* _is_installed(v): os.path.isdir(APPS_SETTING_PATH + v)
            IF IsStr(v) /\ (v[2] = <<>> \/ v[2] \in ctx.installed) THEN [ok |-> TRUE, v |-> v]
            ELSE [ok |-> FALSE, err |-> Err("EINVAL", "app_argument_invalid")]
      [] arg.type = "boolean" ->
            IF v[1] = "bool" THEN [ok |-> TRUE, v |-> IF v[2] THEN PInt(1) ELSE PInt(0)]
            ELSE IF PyIn(PStr(Lower(PyStr(v))), TrueStrings) THEN [ok |-> TRUE, v |-> PInt(1)]
            ELSE IF PyIn(PStr(Lower(PyStr(v))), FalseStrings) THEN [ok |-> TRUE, v |-> PInt(0)]
            ELSE [ok |-> FALSE, err |-> Err("EINVAL", "app_argument_choice_invalid")]
      [] arg.type = "password" ->
            IF IsStr(v) /\ v[2] \in ctx.strong THEN [ok |-> TRUE, v |-> v]
            ELSE [ok |-> FALSE, err |-> Err("EINVAL", "password_too_simple")]
      [] OTHER -> [ok |-> TRUE, v |-> v]

\* the loop over action_args from index i on, args_dict holding the
\* arguments resolved so far
RECURSIVE ResolveFrom(_, _, _, _, _)
ResolveFrom(i, action_args, args, ctx, args_dict) ==
    IF i > Len(action_args) THEN [ok |-> TRUE, odict |-> args_dict, err |-> NoErr]
    ELSE LET arg == action_args[i]
             v == RetrieveValue(arg, args, ctx)
         IN  IF (v = NONE \/ PyEq(v, EMPTY)) /\ ~arg.optional
             THEN [ok |-> FALSE, odict |-> <<>>, err |-> Err("EINVAL", "app_argument_required")]
             ELSE IF v = NONE
             THEN ResolveFrom(i + 1, action_args, args, ctx, OdSet(args_dict, arg.name, EMPTY))
             ELSE IF arg.choices # <<>> /\ ~PyIn(v, arg.choices)
             THEN [ok |-> FALSE, odict |-> <<>>, err |-> Err("EINVAL", "app_argument_choice_invalid")]
             ELSE IF ~ValidateType(arg, v, ctx).ok
             THEN [ok |-> FALSE, odict |-> <<>>, err |-> ValidateType(arg, v, ctx).err]
             ELSE ResolveFrom(i + 1, action_args, args, ctx,
                              OdSet(args_dict, arg.name, ValidateType(arg, v, ctx).v))

\* the names of the arguments of a type, in declaration order
ArgsOfType(action_args, type) ==
    SelectSeq([i \in 1..Len(action_args) |-> action_args[i]], LAMBDA a : a.type = type)

\* fault: the pair is checked but the path argument keeps its raw value
CoResolve_KeepsRaw(action_args, ctx, args_dict) ==
    LET domain_args == ArgsOfType(action_args, "domain")
        path_args == ArgsOfType(action_args, "path")
        np == NormalizeDomainPath(OdGet(args_dict, domain_args[1].name)[2],
                                  OdGet(args_dict, path_args[1].name)[2])
    IN  IF Len(domain_args) = 1 /\ Len(path_args) = 1
             /\ GetConflictingApps(ctx.appmap, np[1], np[2]) # {}
        THEN [ok |-> FALSE, odict |-> <<>>, err |-> Err("EINVAL", "app_location_unavailable"),
              apps |-> GetConflictingApps(ctx.appmap, np[1], np[2])]
        ELSE [ok |-> TRUE, odict |-> args_dict, err |-> NoErr]

\* "If there's only one domain and path, validate that domain/path is an
\* available url and normalize the path"
CoResolve(action_args, ctx, args_dict) ==
    LET domain_args == ArgsOfType(action_args, "domain")
        path_args == ArgsOfType(action_args, "path")
        np == NormalizeDomainPath(OdGet(args_dict, domain_args[1].name)[2],
                                  OdGet(args_dict, path_args[1].name)[2])
    IN  IF Len(domain_args) = 1 /\ Len(path_args) = 1
        THEN IF GetConflictingApps(ctx.appmap, np[1], np[2]) # {}
             THEN [ok |-> FALSE, odict |-> <<>>, err |-> Err("EINVAL", "app_location_unavailable"),
                   apps |-> GetConflictingApps(ctx.appmap, np[1], np[2])]
             ELSE [ok |-> TRUE, odict |-> OdSet(args_dict, path_args[1].name, PStr(np[2])),
                   err |-> NoErr]
        ELSE [ok |-> TRUE, odict |-> args_dict, err |-> NoErr]

\* _parse_action_args_in_yunohost_format(args, action_args, auth)
ParseActionArgs(args, action_args, ctx) ==
    LET r == ResolveFrom(1, action_args, args, ctx, <<>>)
    IN  IF r.ok THEN CoResolve(action_args, ctx, r.odict) ELSE r

\* _make_environment_dict(args_dict, prefix): key <<"YNH_" + prefix, NAME>>
MakeEnvironmentDict(args_dict, prefix) ==
    [k \in {<<prefix, Upper(args_dict[i][1])>> : i \in 1..Len(args_dict)} |->
        LET i == CHOOSE j \in 1..Len(args_dict) : <<prefix, Upper(args_dict[j][1])>> = k
                     /\ \A l \in 1..Len(args_dict) :
                            <<prefix, Upper(args_dict[l][1])>> = k => l <= j
        IN  args_dict[i][2]]

----------------------------------------------------------------------------
(* The apps that can be asked for, and the system they are installed on *)

DOMAIN_ARG == <<"d", "o", "m", "a", "i", "n">>
PATH_ARG == <<"p", "a", "t", "h">>

\* an ArgumentSpec as the manifest declares it
ArgSpec(name, type, default, choices, optional, ask) ==
    [name |-> name, type |-> type, default |-> default, choices |-> choices,
     optional |-> optional, ask |-> ask]

\* the install arguments of the apps below: a domain and a path, both asked
WebArgs == <<ArgSpec(DOMAIN_ARG, "domain", NONE, <<>>, FALSE, TRUE),
             ArgSpec(PATH_ARG, "path", NONE, <<>>, FALSE, TRUE)>>

\* a manifest with the files that come with it; id <<>> stands for a
\* manifest without id, requirements is what _check_manifest_requirements
\* finds: "none" declared, "ok" (a yunohost requirement compatible with
\* '>= 2.3.6' and met), "old" (one incompatible with it), "unmet";
\* chg: a change_url script comes with it, conf: a conf and a hooks folder do
Manifest(id, multi, req, chg, conf) ==
    [id |-> id, multi_instance |-> multi, requirements |-> req,
     install_args |-> WebArgs, change_url |-> chg, conf |-> conf, hooks |-> conf]

Catalog ==
    [r \in {"single", "multi", "noid", "badid", "unmet"} |->
        CASE r = "single" -> Manifest(<<"a">>, FALSE, "none", TRUE, TRUE)
          [] r = "multi"  -> Manifest(<<"b">>, TRUE, "ok", FALSE, FALSE)
          [] r = "noid"   -> Manifest(<<>>, FALSE, "none", FALSE, FALSE)
          [] r = "badid"  -> Manifest(<<"c", "_", "_", "d">>, FALSE, "none", FALSE, FALSE)
          [] r = "unmet"  -> Manifest(<<"c">>, FALSE, "unmet", FALSE, FALSE)]

\* what a caller may name: the catalog and a reference to nothing
AppRefs == DOMAIN Catalog \cup {"ghost"}

\* domain_list(auth)['domains'] and _get_maindomain()
Domains == {<<"d">>, <<"e">>}
MainDomain == <<"d">>

\* the domains and paths callers and scripts give
DomainInputs == Domains \cup {<<"x">>}
PathInputs == {<<"/", "a">>, <<"/", "a", "/", "b">>}

\* the context the resolver reads, over the directories listed as ls
Ctx(ls, d) ==
    [domains |-> Domains, maindomain |-> MainDomain, users |-> {}, strong |-> {},
     installed |-> DOMAIN d,
     appmap |-> AppMapOver(ls, [n \in DOMAIN d |-> d[n].settings], {}),
     interactive |-> FALSE, answers |-> <<>>]

----------------------------------------------------------------------------
(* Instance names *)

\* the fold of _installed_instance_number(auth, app, last=True) over the
\* listing ls, number being the value so far
RECURSIVE InstanceNumberOver(_, _, _)
InstanceNumberOver(ls, app, number) ==
    IF ls = <<>> THEN number
    ELSE LET installed_app == Head(ls)
             at == Find(installed_app, SEP)
         IN  IF number = 0 /\ app = installed_app
             THEN InstanceNumberOver(Tail(ls), app, 1)
             ELSE IF Contains(installed_app, SEP)
                     /\ app = SubSeq(installed_app, 1, at - 1)
                     /\ ParseInt(From(installed_app, at + 1)) > number
             THEN InstanceNumberOver(Tail(ls), app, ParseInt(From(installed_app, at + 1)))
             ELSE InstanceNumberOver(Tail(ls), app, number)

\* int(s) raises ValueError unless s is a string of digits
IsIntLiteral(s) == s # <<>> /\ \A i \in 1..Len(s) : IsDigit(s[i])

\* the loop of _installed_instance_number raises: a name holds '__', the
\* part before its first '__' is the app, what follows is no integer
InstanceNumberRaises(ls, app) ==
    \E i \in 1..Len(ls) :
        /\ Contains(ls[i], SEP)
        /\ app = SubSeq(ls[i], 1, Find(ls[i], SEP) - 1)
        /\ ~IsIntLiteral(From(ls[i], Find(ls[i], SEP) + 1))

\* fault: only the numbered directories app__N are counted
InstalledInstanceNumber_OnlyNumbered(ls, app) ==
    InstanceNumberOver(SelectSeq(ls, LAMBDA n : Contains(n, SEP)), app, 0)

\* _installed_instance_number(auth, app, last=True)
InstalledInstanceNumber(ls, app) == InstanceNumberOver(ls, app, 0)

\* fault: every instance takes the name of the first one
InstanceName_NoSuffix(app_id, instance_number) == app_id

\* the instance name app_install forms
InstanceName(app_id, instance_number) ==
    IF instance_number > 1 THEN app_id \o SEP \o Str(instance_number) ELSE app_id

\* _check_manifest_requirements: the error raised, NoErr when it returns
CheckManifestRequirements(manifest) ==
    IF manifest.multi_instance /\ manifest.requirements \in {"none", "old"}
    THEN Err("EINVAL", "app_incompatible")
    ELSE IF manifest.requirements \in {"old", "unmet"}
    THEN Err("EINVAL", "app_requirements_unmeet")
    ELSE NoErr

----------------------------------------------------------------------------
(* Settings and the location registry *)

\* a dictionary with d[key] = value
DictSet(d, key, value) ==
    [k \in DOMAIN d \cup {key} |-> IF k = key THEN value ELSE d[k]]

\* the directory app_install creates: the initial settings, no status
\* record yet, the manifest and scripts of the app copied in
\* (label and install_time are fixed values and left out)
NewDir(name, app) ==
    [settings |-> [k \in {"id"} |-> name], status |-> FALSE, app |-> app]

\* app_setting(app, key, value=value) on the directories d
AppSetting(d, app, key, value) ==
    [d EXCEPT ![app].settings = DictSet(@, key, value)]

\* what an operation on the registry yields: the directories and the error raised
Reg(ok, d, err) == [ok |-> ok, dirs |-> d, err |-> err]

\* app_register_url(auth, app, domain, path)
AppRegisterUrl(d, ls, app, domain, path) ==
    LET np == NormalizeDomainPath(domain, path)
        appmap == AppMapOver(ls, [n \in DOMAIN d |-> d[n].settings], {})
    IN  IF app \in DOMAIN d /\ {"path", "domain"} \subseteq DOMAIN d[app].settings
        THEN Reg(FALSE, d, Err("EINVAL", "app_already_installed_cant_change_url"))
        ELSE IF GetConflictingApps(appmap, np[1], np[2]) # {}
        THEN Reg(FALSE, d, Err("EINVAL", "app_location_unavailable"))
        ELSE IF app \notin DOMAIN d
        THEN Reg(FALSE, d, Err("EINVAL", "app_not_installed"))
        ELSE Reg(TRUE, AppSetting(AppSetting(d, app, "domain", np[1]), app, "path", np[2]), NoErr)

\* the url of app_checkurl without its scheme and with a slash at its end
CheckurlUrl(url) ==
    LET u == IF StartsWith(url, HTTPS) THEN From(url, 8)
             ELSE IF StartsWith(url, HTTP) THEN From(url, 7)
             ELSE url
    IN  IF u = <<>> \/ u[Len(u)] # "/" THEN u \o <<"/">> ELSE u

\* the test app_checkurl applies to the path p of another app
CheckurlConflict(path, p) == path = p \/ StartsWith(path, p) \/ StartsWith(p, path)

\* fault: the loop of app_checkurl skips every app
CheckurlOthers_None(appmap, domain, app) == {}

\* the entries of the map the loop of app_checkurl tests: those of the
\* domain, the requested app skipped
CheckurlOthers(appmap, domain, app) ==
    {e \in appmap : e[1] = domain /\ ~(app # <<>> /\ e[3] = app)}

\* fault: app_checkurl writes the settings of the app before it looks for
\* conflicts
AppCheckurl_WritesFirst(d, ls, url, app) ==
    LET u == CheckurlUrl(url)
        domain == SubSeq(u, 1, Find(u, <<"/">>) - 1)
        path == From(u, Find(u, <<"/">>) - 1)
        appmap == AppMapOver(ls, [n \in DOMAIN d |-> d[n].settings], {})
        others == CheckurlOthers(appmap, domain, app)
        written == IF app \in DOMAIN d
                   THEN AppSetting(AppSetting(d, app, "domain", domain), app, "path", path)
                   ELSE d
    IN  IF domain \notin Domains
        THEN Reg(FALSE, d, Err("EINVAL", "domain_unknown"))
        ELSE IF \E e \in others : path = e[2]
        THEN Reg(FALSE, written, Err("EINVAL", "app_location_already_used"))
        ELSE IF \E e \in others : CheckurlConflict(path, e[2])
        THEN Reg(FALSE, written, Err("EPERM", "app_location_install_failed"))
        ELSE IF app \in DOMAIN d THEN Reg(TRUE, written, NoErr)
        ELSE Reg(TRUE, d, NoErr)

\* app_checkurl(auth, url, app); app <<>> stands for app=None
AppCheckurl(d, ls, url, app) ==
    LET u == CheckurlUrl(url)
        domain == SubSeq(u, 1, Find(u, <<"/">>) - 1)
        path == From(u, Find(u, <<"/">>) - 1)
        appmap == AppMapOver(ls, [n \in DOMAIN d |-> d[n].settings], {})
        others == CheckurlOthers(appmap, domain, app)
        installed == \E e \in appmap : e[1] = domain /\ app # <<>> /\ e[3] = app
    IN  IF domain \notin Domains
        THEN Reg(FALSE, d, Err("EINVAL", "domain_unknown"))
        ELSE IF \E e \in others : path = e[2]
        THEN Reg(FALSE, d, Err("EINVAL", "app_location_already_used"))
        ELSE IF \E e \in others : CheckurlConflict(path, e[2])
        THEN Reg(FALSE, d, Err("EPERM", "app_location_install_failed"))
        ELSE IF app # <<>> /\ ~installed
        THEN IF app \in DOMAIN d
             THEN Reg(TRUE, AppSetting(AppSetting(d, app, "domain", domain), app, "path", path), NoErr)
             ELSE Reg(FALSE, d, Err("EINVAL", "app_not_installed"))
        ELSE Reg(TRUE, d, NoErr)

----------------------------------------------------------------------------
(* Scripts, permissions and the record of an invocation *)

\* what hook_exec gives back: an exit code, or an exception it lets through
Ret(code) == [k |-> "ret", code |-> code]
Raise(exc) == [k |-> exc, code |-> 0]

ScriptOutcomes ==
    {Ret(0), Ret(1), Raise("KeyboardInterrupt"), Raise("EOFError"), Raise("Exception")}

\* how the install script books its location: not at all, with
\* app_register_url, or with app_checkurl
Bookings == {"none", "register_url", "checkurl"}

\* a step of an invocation, in the order the invocation took them; the run
\* of a remove script is kept with its argument list and environment
Ev(e) == [e |-> e, script |-> "", args |-> <<>>, env |-> <<>>]
HookEv(script, args, env) == [e |-> "hook_exec", script |-> script, args |-> args, env |-> env]

\* the steps an invocation took, by name
Steps(log) == [i \in 1..Len(log) |-> log[i].e]
Has(log, e) == \E i \in 1..Len(log) : log[i].e = e
Where(log, e) == {i \in 1..Len(log) : log[i].e = e}

\* the three variables every script is given
IdEnv(app_id, app_instance_name, instance_number) ==
    [k \in {<<"YNH_APP_ID", <<>>>>, <<"YNH_APP_INSTANCE_NAME", <<>>>>,
            <<"YNH_APP_INSTANCE_NUMBER", <<>>>>} |->
        CASE k[1] = "YNH_APP_ID" -> PStr(app_id)
          [] k[1] = "YNH_APP_INSTANCE_NAME" -> PStr(app_instance_name)
          [] k[1] = "YNH_APP_INSTANCE_NUMBER" -> PStr(Str(instance_number))]

\* env_dict of app_install
InstallEnv(args_odict, app_id, app_instance_name, instance_number) ==
    IdEnv(app_id, app_instance_name, instance_number)
        @@ MakeEnvironmentDict(args_odict, "YNH_APP_ARG_")

\* args_list of app_install
InstallArgsList(args_odict, app_instance_name) ==
    Append(OdValues(args_odict), PStr(app_instance_name))

\* the environment of the change_url script
ChangeUrlEnvDict(app, old_domain, old_path, domain, path, parsed) ==
    [k \in {<<"YNH_APP_OLD_DOMAIN", <<>>>>, <<"YNH_APP_OLD_PATH", <<>>>>,
            <<"YNH_APP_NEW_DOMAIN", <<>>>>, <<"YNH_APP_NEW_PATH", <<>>>>} |->
        CASE k[1] = "YNH_APP_OLD_DOMAIN" -> PStr(old_domain)
          [] k[1] = "YNH_APP_OLD_PATH" -> PStr(RStrip(old_path, {"/"}))
          [] k[1] = "YNH_APP_NEW_DOMAIN" -> PStr(domain)
          [] k[1] = "YNH_APP_NEW_PATH" -> PStr(RStrip(path, {"/"}))]
        @@ IdEnv(parsed.appid, app, parsed.nb)

\* fault: the remove script is given the environment of the install script
RemoveEnv_OfInstall(app_id, app_instance_name, instance_number) ==
    InstallEnv(OdSet(<<>>, PATH_ARG, PStr(<<"/">>)), app_id, app_instance_name,
               instance_number)

\* env_dict_remove of app_install
RemoveEnv(app_id, app_instance_name, instance_number) ==
    IdEnv(app_id, app_instance_name, instance_number)

\* the state an operation works on and the steps it has taken
St(d, pm, hk, log) == [dirs |-> d, perms |-> pm, hooks |-> hk, log |-> log]

\* permission_remove of every permission of the app (force=True)
PermissionRemoveAll(pm, app) == [n \in DOMAIN pm \ {app} |-> pm[n]]

\* permission_add(auth, app, permission="main")
PermissionAdd(pm, app) == [n \in DOMAIN pm \cup {app} |-> IF n = app THEN {} ELSE pm[n]]

\* permission_update(auth, app, permission="main", add_url, remove_url)
PermissionUpdate(pm, app, add_url, remove_url) ==
    [pm EXCEPT ![app] = (@ \cup add_url) \ remove_url]

\* shutil.rmtree(app_setting_path)
RmTree(d, name) == [n \in DOMAIN d \ {name} |-> d[n]]

----------------------------------------------------------------------------
(* app_install *)

\* fault: every exception of the install script counts as an interruption
InstallRetcode_AnyRaiseInterrupts(out) ==
    IF out.k = "ret" THEN out.code ELSE -1

\* install_retcode after the try statement around the install script
InstallRetcode(out) ==
    IF out.k = "ret" THEN out.code
    ELSE IF out.k \in {"KeyboardInterrupt", "EOFError"} THEN -1
    ELSE 1

\* the error app_install raises at the end of the failure branch
InstallFailure(install_retcode) ==
    IF install_retcode = -1 THEN Err("EINTR", "operation_interrupted")
    ELSE Err("EIO", "unexpected_error")

\* the result of an invocation: the state left, the error raised (NoErr
\* when it returns normally) and what the claims need of its locals
Result(st, err, name, code, rmout) ==
    [dirs |-> st.dirs, perms |-> st.perms, hooks |-> st.hooks, log |-> st.log,
     err |-> err, name |-> name, install_retcode |-> code, remove |-> rmout]

\* nothing was run: no remove script outcome
NoRun == Raise("none")

\* fault: a remove script that failed replaces the error raised
CleanAndRaise_RemoveErrorWins(st, name, install_retcode, rmout) ==
    Result(St(RmTree(st.dirs, name), st.perms, st.hooks,
              st.log \o <<Ev("rmtree"), Ev("ssowatconf")>>),
           IF rmout.k = "ret" /\ rmout.code # 0
           THEN Err("EIO", "app_not_properly_removed")
           ELSE InstallFailure(install_retcode),
           name, install_retcode, rmout)

\* "Clean tmp folders" and what follows it in the failure branch
CleanAndRaise(st, name, install_retcode, rmout) ==
    Result(St(RmTree(st.dirs, name), st.perms, st.hooks,
              st.log \o <<Ev("rmtree"), Ev("ssowatconf")>>),
           InstallFailure(install_retcode), name, install_retcode, rmout)

\* fault: the directories are kept when the remove script failed
Rollback_KeepDirOnFailedRemove(st, app_id, name, instance_number, install_retcode, no_remove_on_failure, rmout) ==
    IF no_remove_on_failure
    THEN CleanAndRaise(st, name, install_retcode, NoRun)
    ELSE LET ran == St(st.dirs, PermissionRemoveAll(st.perms, name), st.hooks,
                       st.log \o <<HookEv("remove", <<PStr(name)>>,
                                           RemoveEnv(app_id, name, instance_number)),
                                   Ev("permission_remove")>>)
         IN  IF rmout.k # "ret"
             THEN Result(St(st.dirs, st.perms, st.hooks, SubSeq(ran.log, 1, Len(st.log) + 1)),
                         Err(rmout.k, "hook_exec"), name, install_retcode, rmout)
             ELSE IF rmout.code # 0
             THEN Result(St(ran.dirs, ran.perms, ran.hooks, Append(ran.log, Ev("ssowatconf"))),
                         InstallFailure(install_retcode), name, install_retcode, rmout)
             ELSE CleanAndRaise(ran, name, install_retcode, rmout)

\* the failure branch of the finally clause: the remove script, the
\* permissions, the directories, the error
Rollback(st, app_id, name, instance_number, install_retcode, no_remove_on_failure, rmout) ==
    IF no_remove_on_failure
    THEN CleanAndRaise(st, name, install_retcode, NoRun)
    ELSE LET ran == St(st.dirs, st.perms, st.hooks,
                       Append(st.log, HookEv("remove", <<PStr(name)>>,
                                             RemoveEnv(app_id, name, instance_number))))
         IN  IF rmout.k # "ret"
             THEN Result(ran, Err(rmout.k, "hook_exec"), name, install_retcode, rmout)
             ELSE CleanAndRaise(
                     St(ran.dirs, PermissionRemoveAll(ran.perms, name), ran.hooks,
                        Append(ran.log, Ev("permission_remove"))),
                     name, install_retcode, rmout)

\* what follows a zero exit code of the install script
Commit(st, name, manifest) ==
    LET d1 == [st.dirs EXCEPT ![name].status = TRUE]
        settings == d1[name].settings
        path == IF "path" \in DOMAIN settings THEN settings["path"] ELSE <<"/">>
        s1 == St(d1, st.perms,
                 (st.hooks \ {name}) \cup (IF manifest.hooks THEN {name} ELSE {}),
                 st.log \o <<Ev("hook_remove"), Ev("status")>>)
    IN  IF "domain" \notin DOMAIN settings
        THEN Result(s1, Err("KeyError", "domain"), name, 0, NoRun)
        ELSE IF settings["domain"] # <<>> /\ path # <<>>
        THEN Result(St(d1, PermissionUpdate(st.perms, name, {settings["domain"] \o path}, {}),
                       s1.hooks,
                       s1.log \o <<Ev("permission_update"), Ev("permission_sync"),
                                   Ev("post_app_install")>>),
                    NoErr, name, 0, NoRun)
        ELSE Result(St(d1, st.perms, s1.hooks,
                       s1.log \o <<Ev("permission_sync"), Ev("post_app_install")>>),
                    NoErr, name, 0, NoRun)

\* the effect of the install script on the registry: it books the location
\* it was given, through app_register_url or app_checkurl, or books nothing
ScriptBooks(d, ls, name, booking, domain, path) ==
    CASE booking = "register_url" -> AppRegisterUrl(d, ls, name, domain, path).dirs
      [] booking = "checkurl" -> AppCheckurl(d, ls, domain \o path, name).dirs
      [] OTHER -> d

\* "Create app directory": a directory in the way is removed first
Created(d, name, app) ==
    [n \in DOMAIN d \cup {name} |-> IF n = name THEN NewDir(name, app) ELSE d[n]]

\* fault: the main permission is registered once the install script has run
InstallFrom_PermissionAfterScript(st, app, app_id, instance_number, name, args_odict, no_remove_on_failure, perm_ok, booked, out, rmout) ==
    LET s1 == St(Created(st.dirs, name, app), st.perms, st.hooks,
                 st.log \o <<Ev("makedirs"), Ev("set_app_settings")>>)
        s2 == St(s1.dirs, PermissionAdd(st.perms, name), st.hooks,
                 Append(s1.log, Ev("install_script")))
        s3 == St(booked, s2.perms, s2.hooks, Append(s2.log, Ev("permission_add")))
    IN  IF ~perm_ok \/ name \in DOMAIN st.perms
        THEN Result(s1, Err("EINVAL", "permission_add"), name, 0, NoRun)
        ELSE IF InstallRetcode(out) # 0
        THEN Rollback(s3, app_id, name, instance_number, InstallRetcode(out),
                      no_remove_on_failure, rmout)
        ELSE Commit(s3, name, Catalog[app])

\* app_install from "Create app directory" on: name is the instance name
\* formed, args_odict the resolved arguments, booked the directories as the
\* install script leaves them
InstallFrom(st, app, app_id, instance_number, name, args_odict, no_remove_on_failure, perm_ok, booked, out, rmout) ==
    LET s1 == St(Created(st.dirs, name, app), st.perms, st.hooks,
                 st.log \o <<Ev("makedirs"), Ev("set_app_settings")>>)
        s2 == St(s1.dirs, PermissionAdd(st.perms, name), st.hooks,
                 Append(s1.log, Ev("permission_add")))
        s3 == St(booked, s2.perms, s2.hooks, Append(s2.log, Ev("install_script")))
    IN  IF ~perm_ok \/ name \in DOMAIN st.perms
        THEN Result(s1, Err("EINVAL", "permission_add"), name, 0, NoRun)
        ELSE IF InstallRetcode(out) # 0
        THEN Rollback(s3, app_id, name, instance_number, InstallRetcode(out),
                      no_remove_on_failure, rmout)
        ELSE Commit(s3, name, Catalog[app])

\* what app_install has worked out when it reaches "Create app directory",
\* or the error one of its checks raised before
Checked(err, app_id, instance_number, args_odict) ==
    [err |-> err, app_id |-> app_id, instance_number |-> instance_number,
     name |-> InstanceName(app_id, instance_number), args_odict |-> args_odict]

\* the checks of app_install before anything is written, in their order
InstallChecks(d, ls, app, args) ==
    IF app \notin DOMAIN Catalog THEN Checked(Err("EINVAL", "app_unknown"), <<>>, 0, <<>>)
    ELSE LET manifest == Catalog[app]
             instance_number == InstalledInstanceNumber(ls, manifest.id) + 1
             parsed == ParseActionArgs(args, manifest.install_args, Ctx(ls, d))
         IN  IF manifest.id = <<>> \/ Contains(manifest.id, SEP)
             THEN Checked(Err("EINVAL", "app_id_invalid"), <<>>, 0, <<>>)
             ELSE IF CheckManifestRequirements(manifest) # NoErr
             THEN Checked(CheckManifestRequirements(manifest), manifest.id, 0, <<>>)
             ELSE IF InstanceNumberRaises(ls, manifest.id)
             THEN Checked(Err("ValueError", "int"), manifest.id, 0, <<>>)
             ELSE IF instance_number > 1 /\ ~manifest.multi_instance
             THEN Checked(Err("EEXIST", "app_already_installed"), manifest.id,
                          instance_number, <<>>)
             ELSE Checked(parsed.err, manifest.id, instance_number, parsed.odict)

\* fault: "Create app directory" comes before the arguments are resolved
InstallRefused_DirCreated(st, c) ==
    IF c.err.key \in {"app_argument_required", "app_argument_invalid",
                      "app_location_unavailable"}
    THEN Result(St(Created(st.dirs, c.name,
                           CHOOSE r \in DOMAIN Catalog : Catalog[r].id = c.app_id),
                   st.perms, st.hooks, <<Ev("makedirs")>>),
                c.err, <<>>, 0, NoRun)
    ELSE Result(st, c.err, <<>>, 0, NoRun)

\* app_install raising the error of one of its checks: nothing was written
InstallRefused(st, c) == Result(st, c.err, <<>>, 0, NoRun)

\* app_install(auth, app, args=args, no_remove_on_failure) on the state st,
\* c being what its checks gave
AppInstallResult(st, app, c, no_remove_on_failure, perm_ok, booked, out, rmout) ==
    IF c.err # NoErr
    THEN InstallRefused(st, c)
    ELSE InstallFrom(st, app, c.app_id, c.instance_number, c.name, c.args_odict,
                     no_remove_on_failure, perm_ok, booked, out, rmout)

----------------------------------------------------------------------------
(* _parse_app_instance_name and app_remove *)

\* the characters [\w-] of re_app_instance_name that names are made of here
WordChars == {"a", "b", "c", "d", "y", "o", "l", "q", "s", "_", "-"} \cup Range(DigitChars)

\* [1-9][0-9]*
IsInstanceNb(s) ==
    s # <<>> /\ s[1] \in Range(DigitChars) \ {"0"} /\ \A i \in 1..Len(s) : IsDigit(s[i])

\* re_app_instance_name.match(name): the lengths an appid can have, the
\* lazy [\w-]+? taking the shortest
AppIdLengths(name) ==
    {k \in 1..Len(name) :
        /\ \A i \in 1..k : name[i] \in WordChars
        /\ \/ k = Len(name)
           \/ /\ k + 2 <= Len(name)
              /\ SubSeq(name, k + 1, k + 2) = SEP
              /\ IsInstanceNb(From(name, k + 2))}

\* fault: the appid takes the longest match
ParseAppInstanceName_Greedy(name) ==
    IF AppIdLengths(name) = {} THEN [ok |-> FALSE, appid |-> <<>>, nb |-> 0]
    ELSE [ok |-> TRUE, appid |-> name, nb |-> 1]

\* _parse_app_instance_name(app_instance_name): <<appid, app_instance_nb>>;
\* ok is FALSE when the expression does not match and the call fails
ParseAppInstanceName(name) ==
    IF AppIdLengths(name) = {} THEN [ok |-> FALSE, appid |-> <<>>, nb |-> 0]
    ELSE LET k == CHOOSE k \in AppIdLengths(name) : \A j \in AppIdLengths(name) : k <= j
         IN  [ok |-> TRUE, appid |-> SubSeq(name, 1, k),
              nb |-> IF k = Len(name) THEN 1 ELSE ParseInt(From(name, k + 2))]

\* the scripts a caller may see end: with an exit code or with an exception
RunOutcomes == {Ret(0), Ret(1), Raise("Exception")}

\* app_remove(auth, app), the remove script ending as out
AppRemoveResult(st, app, out) ==
    LET parsed == ParseAppInstanceName(app)
        ran == St(st.dirs, st.perms, st.hooks,
                  Append(st.log, HookEv("remove", <<PStr(app)>>,
                                        IdEnv(parsed.appid, app, parsed.nb))))
    IN  IF app \notin DOMAIN st.dirs
        THEN Result(st, Err("EINVAL", "app_not_installed"), app, 0, NoRun)
        ELSE IF out.k # "ret"
        THEN Result(ran, Err(out.k, "hook_exec"), app, 0, out)
        ELSE Result(St(RmTree(ran.dirs, app), PermissionRemoveAll(ran.perms, app),
                       ran.hooks \ {app},
                       ran.log \o (IF out.code = 0 THEN <<Ev("post_app_remove")>> ELSE <<>>)
                               \o <<Ev("rmtree"), Ev("hook_remove"), Ev("permission_remove"),
                                    Ev("permission_sync")>>),
                    NoErr, app, 0, out)

----------------------------------------------------------------------------
(* app_change_url *)

\* fault: a failed reload of nginx restores the settings and the permission
ChangeUrlFrom_RestoresOnReload(st, ls, app, old_domain, old_path, domain, path, out, nginx_ok) ==
    LET checked == AppCheckurl(st.dirs, ls, domain \o path, app)
        s1 == St(checked.dirs, st.perms, st.hooks, Append(st.log, Ev("checkurl")))
        s2 == St(s1.dirs, s1.perms, s1.hooks, Append(s1.log, Ev("change_url_script")))
        restored == AppSetting(AppSetting(s2.dirs, app, "domain", old_domain),
                               app, "path", old_path)
        moved == AppSetting(AppSetting(s2.dirs, app, "domain", domain), app, "path", path)
        s3 == St(moved, PermissionUpdate(s2.perms, app, {domain \o path},
                                         {old_domain \o old_path}),
                 s2.hooks,
                 s2.log \o <<Ev("set_app_settings"), Ev("permission_update"),
                             Ev("permission_sync")>>)
    IN  IF ~checked.ok THEN Result(s1, checked.err, app, 0, NoRun)
        ELSE IF ~Catalog[st.dirs[app].app].conf
        THEN Result(s1, Err("OSError", "copytree"), app, 0, NoRun)
        ELSE IF out.k # "ret" THEN Result(s2, Err(out.k, "hook_exec"), app, 0, out)
        ELSE IF out.code # 0
        THEN Result(St(restored, s2.perms, s2.hooks, Append(s2.log, Ev("restore"))),
                    NoErr, app, 0, out)
        ELSE IF app \notin DOMAIN s2.perms
        THEN Result(St(moved, s2.perms, s2.hooks, Append(s2.log, Ev("set_app_settings"))),
                    Err("EINVAL", "permission_not_found"), app, 0, out)
        ELSE IF ~nginx_ok
        THEN Result(St(restored, s2.perms, s2.hooks, s3.log),
                    Err("EINVAL", "app_change_url_failed_nginx_reload"), app, 0, out)
        ELSE Result(St(s3.dirs, s3.perms, s3.hooks, Append(s3.log, Ev("post_app_change_url"))),
                    NoErr, app, 0, out)

\* app_change_url from the call of app_checkurl on: domain and path are
\* the normalized request, old_domain and old_path what was read before
ChangeUrlFrom(st, ls, app, old_domain, old_path, domain, path, out, nginx_ok) ==
    LET checked == AppCheckurl(st.dirs, ls, domain \o path, app)
        s1 == St(checked.dirs, st.perms, st.hooks, Append(st.log, Ev("checkurl")))
        s2 == St(s1.dirs, s1.perms, s1.hooks, Append(s1.log, Ev("change_url_script")))
        restored == AppSetting(AppSetting(s2.dirs, app, "domain", old_domain),
                               app, "path", old_path)
        moved == AppSetting(AppSetting(s2.dirs, app, "domain", domain), app, "path", path)
        s3 == St(moved, PermissionUpdate(s2.perms, app, {domain \o path},
                                         {old_domain \o old_path}),
                 s2.hooks,
                 s2.log \o <<Ev("set_app_settings"), Ev("permission_update"),
                             Ev("permission_sync")>>)
    IN  IF ~checked.ok THEN Result(s1, checked.err, app, 0, NoRun)
        ELSE IF ~Catalog[st.dirs[app].app].conf
        THEN Result(s1, Err("OSError", "copytree"), app, 0, NoRun)
        ELSE IF out.k # "ret" THEN Result(s2, Err(out.k, "hook_exec"), app, 0, out)
        ELSE IF out.code # 0
        THEN Result(St(restored, s2.perms, s2.hooks, Append(s2.log, Ev("restore"))),
                    NoErr, app, 0, out)
        ELSE IF app \notin DOMAIN s2.perms
        THEN Result(St(moved, s2.perms, s2.hooks, Append(s2.log, Ev("set_app_settings"))),
                    Err("EINVAL", "permission_not_found"), app, 0, out)
        ELSE IF ~nginx_ok
        THEN Result(s3, Err("EINVAL", "app_change_url_failed_nginx_reload"), app, 0, out)
        ELSE Result(St(s3.dirs, s3.perms, s3.hooks, Append(s3.log, Ev("post_app_change_url"))),
                    NoErr, app, 0, out)

\* app_change_url(auth, app, domain, path)
AppChangeUrlResult(st, ls, app, domain, path, out, nginx_ok) ==
    IF app \notin DOMAIN st.dirs
    THEN Result(st, Err("ENOPKG", "app_not_installed"), app, 0, NoRun)
    ELSE IF ~Catalog[st.dirs[app].app].change_url
    THEN Result(st, Err("EINVAL", "app_change_no_change_url_script"), app, 0, NoRun)
    ELSE IF "path" \notin DOMAIN st.dirs[app].settings
    THEN Result(st, Err("AttributeError", "normalize_url_path"), app, 0, NoRun)
    ELSE LET settings == st.dirs[app].settings
             old_domain == IF "domain" \in DOMAIN settings THEN settings["domain"] ELSE <<>>
             new_domain == Lower(Strip(domain, Whitespace))
         IN  IF <<new_domain, NormalizeUrlPath(path)>>
                    = <<old_domain, NormalizeUrlPath(settings["path"])>>
             THEN Result(st, Err("EINVAL", "app_change_url_identical_domains"), app, 0, NoRun)
             ELSE ChangeUrlFrom(st, ls, app, old_domain, NormalizeUrlPath(settings["path"]),
                                new_domain, NormalizeUrlPath(path), out, nginx_ok)

----------------------------------------------------------------------------
(* The state machine: one operation at a time, each running to its end *)

NoDirs == [n \in {} |-> 0]

\* no invocation to report
Idle ==
    [op |-> "none", ref |-> "", target |-> <<>>, domain |-> <<>>,
     path |-> <<>>, no_remove |-> FALSE, out |-> NoRun, remove |-> NoRun,
     name |-> <<>>, err |-> NoErr, install_retcode |-> 0, log |-> <<>>]

\* the invocation just returned: its inputs and its result
Returned(op, ref, target, domain, path, no_remove, out, res) ==
    [op |-> op, ref |-> ref, target |-> target, domain |-> domain,
     path |-> path, no_remove |-> no_remove, out |-> out, remove |-> res.remove,
     name |-> res.name, err |-> res.err, install_retcode |-> res.install_retcode,
     log |-> res.log]

\* the arguments a caller gives app_install: a domain, a path, or both
Given(k, v) == [n \in {k} |-> PStr(v)]

\* the value the caller gave under the name, '' when none
ArgGiven(args, k) == IF k \in DOMAIN args THEN args[k][2] ELSE <<>>

InstallArgs ==
    {Given(DOMAIN_ARG, dm) @@ Given(PATH_ARG, pa) : dm \in DomainInputs, pa \in PathInputs}
        \cup {Given(DOMAIN_ARG, dm) : dm \in DomainInputs}
        \cup {Given(PATH_ARG, pa) : pa \in PathInputs}

\* the names that can be given to app_remove and app_change_url
InstanceNames ==
    {InstanceName(Catalog[r].id, n) : r \in {"single", "multi"}, n \in 1..MaxInstanceNumber}

\* the requests app_change_url is given
ChangeDomains == DomainInputs \cup {<<"D">>}
ChangePaths == PathInputs \cup {<<"a">>, <<"/", "a", "b">>}

Init ==
    /\ dirs = NoDirs
    /\ perms = NoDirs
    /\ hooks = {}
    /\ call = Idle
    /\ nops = 0
    /\ rin = <<>>
    /\ rout = <<>>

Here == St(dirs, perms, hooks, <<>>)

\* an operation can start: the last one has returned
CanStart == call.op = "none" /\ nops < MaxOps

Apply(res) ==
    /\ dirs' = res.dirs
    /\ perms' = res.perms
    /\ hooks' = res.hooks
    /\ nops' = nops + 1
    /\ UNCHANGED <<rin, rout>>

\* app_install that stops at one of its checks
AppInstallRefused ==
    /\ CanStart
    /\ \E app \in AppRefs, args \in InstallArgs :
          \E c \in {InstallChecks(dirs, ls, app, args) : ls \in Listings(DOMAIN dirs)} :
             LET res == AppInstallResult(Here, app, c, FALSE, TRUE, NoDirs, Ret(0), NoRun)
             IN  /\ c.err # NoErr
                 /\ Apply(res)
                 /\ call' = Returned("install", app, <<>>, ArgGiven(args, DOMAIN_ARG),
                                     <<>>, FALSE, NoRun, res)

\* the outcomes app_install gets to read: the install script and the
\* flag only once the permission is registered, the remove script only
\* after a failed install script with no_remove_on_failure unset; what is
\* never read is fixed
ReadByInstall(no_remove, perm_ok, out, rmout) ==
    /\ ~perm_ok => (out = Ret(0) /\ ~no_remove)
    /\ out = Ret(0) => ~no_remove
    /\ (out = Ret(0) \/ no_remove) => rmout = Ret(0)

\* app_install that passes its checks: the permission is registered or
\* not, the script books its location or not and ends as out, the remove
\* script as rmout
AppInstall ==
    /\ CanStart
    /\ \E app \in DOMAIN Catalog, args \in InstallArgs :
          \E c \in {InstallChecks(dirs, ls, app, args) : ls \in Listings(DOMAIN dirs)} :
             /\ c.err = NoErr
             /\ c.instance_number <= MaxInstanceNumber
             /\ \E booked \in {ScriptBooks(Created(dirs, c.name, app), ls, c.name, booking,
                                           OdGet(c.args_odict, DOMAIN_ARG)[2],
                                           OdGet(c.args_odict, PATH_ARG)[2]) :
                                  ls \in Listings(DOMAIN dirs \cup {c.name}),
                                  booking \in Bookings},
                   no_remove \in BOOLEAN, perm_ok \in BOOLEAN,
                   out \in ScriptOutcomes, rmout \in RunOutcomes :
                   LET res == AppInstallResult(Here, app, c, no_remove, perm_ok,
                                               booked, out, rmout)
                   IN  /\ ReadByInstall(no_remove, perm_ok, out, rmout)
                       /\ Apply(res)
                       /\ call' = Returned("install", app, <<>>, <<>>, <<>>,
                                           no_remove, out, res)

\* app_remove
AppRemove ==
    /\ CanStart
    /\ \E app \in InstanceNames, out \in RunOutcomes :
          LET res == AppRemoveResult(Here, app, out)
          IN  /\ Apply(res)
              /\ call' = Returned("remove", "", app, <<>>, <<>>, FALSE, out, res)

\* app_change_url; the outcomes of the script and of the reload of nginx
\* are fixed where the invocation does not get to them
AppChangeUrl ==
    /\ CanStart
    /\ \E app \in InstanceNames, domain \in ChangeDomains, path \in ChangePaths,
          out \in RunOutcomes, nginx_ok \in BOOLEAN :
          \E res \in {AppChangeUrlResult(Here, ls, app, domain, path, out, nginx_ok) :
                         ls \in Listings(DOMAIN dirs)} :
             /\ Has(res.log, "change_url_script") \/ (out = Ret(0) /\ nginx_ok)
             /\ out # Ret(0) => nginx_ok
             /\ Apply(res)
             /\ call' = Returned("change_url", "", app, Lower(Strip(domain, Whitespace)),
                                 NormalizeUrlPath(path), FALSE, out, res)

\* the caller takes the result; the next operation can start
Return ==
    /\ call.op # "none"
    /\ call' = Idle
    /\ UNCHANGED <<dirs, perms, hooks, nops, rin, rout>>

Next == AppInstallRefused \/ AppInstall \/ AppRemove \/ AppChangeUrl \/ Return

Spec == Init /\ [][Next]_vars

----------------------------------------------------------------------------
(* The argument resolver on its own: one declared argument, resolved once *)

FOO == <<"f", "o", "o">>
BAR == <<"b", "a", "r">>
ARG == <<"x">>

ArgTypes == {"string", "password", "boolean", "domain", "path", "user", "app"}

\* the resolver has not run yet
Pending == [ok |-> FALSE, odict |-> <<>>, err |-> Err("", "pending")]

\* values a caller gives for a boolean argument
TRUE_STR == <<"t", "r", "u", "e">>
FALSE_STR == <<"f", "a", "l", "s", "e">>
BooleanInputs ==
    {PBool(TRUE), PBool(FALSE), PInt(1), PInt(0)}
        \cup {PStr(v) : v \in {YES, <<"Y">>, <<"Y", "e", "s">>, <<"1">>, TRUE_STR,
                               <<"T", "r", "u", "e">>, NO, <<"N">>, <<"N", "O">>, <<"0">>,
                               FALSE_STR, <<"F", "A", "L", "S", "E">>,
                               <<"m", "a", "y", "b", "e">>, <<"2">>}}

\* what the resolver is run on: the declared argument, what the caller
\* supplies for it (at most one value), whether someone answers the prompt
\* and with what, and whether "foo" is a domain, a user, an installed app
\* and a strong password of the system
ResolverInputs ==
    [arg : {ArgSpec(ARG, t, df, ch, opt, ask) :
                t \in ArgTypes, df \in {NONE, PStr(FOO)},
                ch \in {<<>>, <<PStr(BAR)>>}, opt \in BOOLEAN, ask \in BOOLEAN},
     args : {NoDirs, Given(ARG, FOO), Given(ARG, <<>>)}
                \cup {[n \in {ARG} |-> v] : v \in BooleanInputs},
     interactive : BOOLEAN,
     answer : {<<>>, YES},
     foo_known : BOOLEAN]

\* the context of a resolver run
ResolverCtx(in) ==
    [domains |-> Domains \cup (IF in.foo_known THEN {FOO} ELSE {}),
     maindomain |-> MainDomain,
     users |-> IF in.foo_known THEN {FOO} ELSE {},
     strong |-> IF in.foo_known THEN {FOO} ELSE {},
     installed |-> IF in.foo_known THEN {FOO} ELSE {},
     appmap |-> {},
     interactive |-> in.interactive,
     answers |-> [n \in {ARG} |-> in.answer]]

InitArgs ==
    /\ dirs = NoDirs
    /\ perms = NoDirs
    /\ hooks = {}
    /\ call = Idle
    /\ nops = 0
    /\ rin \in ResolverInputs
    /\ rout = Pending

\* _parse_action_args_in_yunohost_format(args, [arg], auth)
Resolve ==
    /\ rout = Pending
    /\ rout' = ParseActionArgs(rin.args, <<rin.arg>>, ResolverCtx(rin))
    /\ UNCHANGED <<dirs, perms, hooks, call, nops, rin>>

NextArgs == Resolve

SpecArgs == InitArgs /\ [][NextArgs]_vars

----------------------------------------------------------------------------
(* Properties of app_install: the failure branch *)

\* the runs of the remove script in a log
RemoveRuns(log) == {i \in Where(log, "hook_exec") : log[i].script = "remove"}

\* the last invocation was an app_install whose install script ran
InstallRan == call.op = "install" /\ Has(call.log, "install_script")

\* ... and returned a non-zero exit code, no_remove_on_failure unset
InstallExitedNonZero ==
    InstallRan /\ call.out.k = "ret" /\ call.out.code # 0 /\ ~call.no_remove

\* the steps of the failure branch once the install script has ended
RollbackSteps(log) ==
    SubSeq(Steps(log), CHOOSE i \in Where(log, "install_script") : TRUE, Len(log))

\* C1: after an app_install whose install script returned a non-zero exit
\* code, no_remove_on_failure unset, the settings directory of the instance
\* does not exist when the operation returns, whatever exit code the remove
\* script returned
C1_NoResidualDirectory ==
    (InstallExitedNonZero /\ call.remove.k = "ret") => call.name \notin DOMAIN dirs

\* such an install has returned, its remove script having failed too
C1_Witness ==
    /\ InstallExitedNonZero
    /\ call.remove = Ret(1)
    /\ Has(call.log, "makedirs")
    /\ call.name \notin DOMAIN dirs

\* C2: once an app_install has returned, a settings directory exists for
\* its instance only if the install reached the commit step
C2_DirectoryOnlyIfCommitted ==
    (call.op = "install" /\ call.name # <<>> /\ call.name \in DOMAIN dirs)
        => Has(call.log, "status")

\* C3: when the install script exits non-zero and no_remove_on_failure is
\* unset, the remove script is executed exactly once, after the install
\* script and before the settings directory is deleted, with the instance
\* name as its only argument and an environment of exactly YNH_APP_ID,
\* YNH_APP_INSTANCE_NAME and YNH_APP_INSTANCE_NUMBER
C3_RemoveRunOnce ==
    InstallExitedNonZero =>
        /\ Cardinality(RemoveRuns(call.log)) = 1
        /\ \A i \in RemoveRuns(call.log) :
              /\ \A j \in Where(call.log, "install_script") : j < i
              /\ \A j \in Where(call.log, "rmtree") : i < j
              /\ call.log[i].args = <<PStr(call.name)>>
              /\ DOMAIN call.log[i].env
                    = {<<"YNH_APP_ID", <<>>>>, <<"YNH_APP_INSTANCE_NAME", <<>>>>,
                       <<"YNH_APP_INSTANCE_NUMBER", <<>>>>}
              /\ call.log[i].env[<<"YNH_APP_INSTANCE_NAME", <<>>>>] = PStr(call.name)

\* the remove script of a numbered instance has run and the directory was
\* deleted after it
C3_Witness ==
    /\ InstallExitedNonZero
    /\ Contains(call.name, SEP)
    /\ RemoveRuns(call.log) # {}
    /\ Has(call.log, "rmtree")

\* the error a failed install script stands for
InstallError ==
    IF call.out.k \in {"KeyboardInterrupt", "EOFError"}
    THEN Err("EINTR", "operation_interrupted")
    ELSE Err("EIO", "unexpected_error")

\* the install script failed and the failure branch ran to its end: the
\* remove script returned an exit code, or was not asked for
FailureBranchEnded ==
    /\ InstallRan
    /\ call.out # Ret(0)
    /\ call.remove.k = "ret" \/ call.no_remove

\* C4: a failed app_install reports the install failure itself whether the
\* remove script returns 0 or not; a failing remove script does not keep
\* the directories from being deleted and does not replace the error
C4_InstallErrorReported ==
    FailureBranchEnded =>
        /\ call.err = InstallError
        /\ call.name \notin DOMAIN dirs

\* the install script and the remove script both failed
C4_Witness ==
    /\ FailureBranchEnded
    /\ call.out = Ret(1)
    /\ call.remove = Ret(1)
    /\ call.err = Err("EIO", "unexpected_error")

\* C5: an interrupted install script (KeyboardInterrupt, EOFError) is
\* followed by the rollback steps of a non-zero exit (remove script,
\* permission removal, directory deletion) and raises EINTR; a non-zero
\* exit or another exception raises EIO, never EINTR
C5_InterruptedOrFailed ==
    (FailureBranchEnded /\ ~call.no_remove) =>
        /\ RollbackSteps(call.log)
              = <<"install_script", "hook_exec", "permission_remove", "rmtree", "ssowatconf">>
        /\ call.out.k \in {"KeyboardInterrupt", "EOFError"} => call.err.errno = "EINTR"
        /\ call.out.k \in {"ret", "Exception"} => call.err.errno = "EIO"

\* an install script has raised an exception that is no interruption and
\* the failure was rolled back
C5_Witness ==
    /\ FailureBranchEnded
    /\ ~call.no_remove
    /\ call.out = Raise("Exception")
    /\ call.err.errno = "EIO"

----------------------------------------------------------------------------
(* Properties of app_install: the checks *)

\* the errors of the checks of app_install
ValidationErrors ==
    {"app_unknown", "app_id_invalid", "app_incompatible", "app_requirements_unmeet",
     "app_already_installed", "app_argument_required", "app_argument_invalid",
     "app_argument_choice_invalid", "app_location_unavailable"}

\* C6: an app_install that fails on one of its checks leaves the settings
\* directories and the permissions as they were, and runs no script
C6_ValidationWritesNothing ==
    [][(call.op = "none" /\ call'.op = "install" /\ call'.err.key \in ValidationErrors)
          => (dirs' = dirs /\ perms' = perms /\ hooks' = hooks /\ call'.log = <<>>)]_vars

\* an install was refused for its location while an instance is installed
C6_Witness ==
    /\ call.op = "install"
    /\ call.err.key = "app_location_unavailable"
    /\ call.log = <<>>
    /\ \E n \in DOMAIN dirs : dirs[n].status

\* the apps of the catalog that do not declare multi_instance and can be
\* installed
SingleInstanceApps ==
    {r \in DOMAIN Catalog : /\ ~Catalog[r].multi_instance
                            /\ Catalog[r].id # <<>>
                            /\ ~Contains(Catalog[r].id, SEP)
                            /\ CheckManifestRequirements(Catalog[r]) = NoErr}

\* C7: installing an app that does not declare multi_instance while an
\* instance of it is installed fails with the already-installed error and
\* leaves the settings directories as they were
C7_SecondInstallRefused ==
    [][(/\ call.op = "none"
        /\ call'.op = "install"
        /\ call'.ref \in SingleInstanceApps
        /\ Catalog[call'.ref].id \in DOMAIN dirs)
          => (call'.err = Err("EEXIST", "app_already_installed") /\ dirs' = dirs)]_vars

\* the second install was refused, the first instance being a committed one
C7_Witness ==
    /\ call.op = "install"
    /\ call.ref \in SingleInstanceApps
    /\ call.err = Err("EEXIST", "app_already_installed")
    /\ Catalog[call.ref].id \in DOMAIN dirs
    /\ dirs[Catalog[call.ref].id].status
    /\ "domain" \in DOMAIN dirs[Catalog[call.ref].id].settings

----------------------------------------------------------------------------
(* Properties of the location registry *)

\* the location in the settings of an instance, <<>> when it has no domain
LocationOf(n) ==
    IF "domain" \in DOMAIN dirs[n].settings
    THEN <<dirs[n].settings["domain"],
           IF "path" \in DOMAIN dirs[n].settings THEN dirs[n].settings["path"]
           ELSE <<"/">>>>
    ELSE <<>>

\* C8: no two instances have the same (domain, path) in their settings and
\* no two have the same instance name
C8_LocationsAndNamesUnique ==
    \A n1, n2 \in DOMAIN dirs :
        n1 # n2 =>
            /\ dirs[n1].settings["id"] # dirs[n2].settings["id"]
            /\ LocationOf(n1) # <<>> => LocationOf(n1) # LocationOf(n2)

\* two instances are on the same domain, one of them moved there
C8_Witness ==
    /\ call.op = "change_url"
    /\ call.err = NoErr
    /\ \E n1, n2 \in DOMAIN dirs :
          /\ n1 # n2
          /\ LocationOf(n1) # <<>> /\ LocationOf(n2) # <<>>
          /\ LocationOf(n1)[1] = LocationOf(n2)[1]

\* C9, for app_checkurl at change_url: the request is rejected exactly when
\* another instance on the domain has an equal path or one of the two paths
\* is a prefix of the other at a slash boundary
C9_RejectsExactlyConflicts ==
    [][(call.op = "none" /\ call'.op = "change_url" /\ Has(call'.log, "checkurl")
            /\ call'.domain \in Domains)
          => ((call'.err.key \in {"app_location_already_used", "app_location_install_failed"})
                <=> \E n \in DOMAIN dirs \ {call'.target} :
                       /\ LocationOf(n) # <<>>
                       /\ LocationOf(n)[1] = call'.domain
                       /\ PathsConflict(call'.path, LocationOf(n)[2]))]_vars

----------------------------------------------------------------------------
(* Properties of the argument resolver *)

\* the resolver has run on an argument that is not optional, without a
\* value from the caller and without anyone to answer a prompt
RequiredUnanswered ==
    /\ rout # Pending
    /\ ~rin.arg.optional
    /\ rin.args = NoDirs
    /\ ~rin.interactive

\* the value the argument resolved to
Resolved(v) == rout.ok /\ OdGet(rout.odict, ARG) = v

\* the default of a boolean, or of a domain that is asked, is not the
\* declared one
DefaultReplaced == rin.arg.type = "boolean" \/ (rin.arg.type = "domain" /\ rin.arg.ask)

\* "foo" is a value of the type of the argument
FooValid == rin.arg.type \in {"string", "path"} \/ rin.foo_known

BooleanGiven ==
    /\ rout # Pending
    /\ rin.arg.type = "boolean"
    /\ rin.arg.choices = <<>>
    /\ ARG \in DOMAIN rin.args

\* the value given, as a lower-case string when it is a string
GivenLower ==
    IF IsStr(rin.args[ARG]) THEN PStr(Lower(rin.args[ARG][2])) ELSE rin.args[ARG]

\* C11: the boolean type takes yes, y, 1 and true (string or boolean), in
\* any case, as the one true value, no, n, 0 and false (string or boolean)
\* as the one false value, and fails on every other input
C11_BooleanCoercion ==
    BooleanGiven =>
        IF GivenLower \in {PStr(YES), PStr(<<"y">>), PStr(<<"1">>), PStr(TRUE_STR),
                           PBool(TRUE), PInt(1)}
        THEN Resolved(PInt(1))
        ELSE IF GivenLower \in {PStr(NO), PStr(<<"n">>), PStr(<<"0">>), PStr(FALSE_STR),
                                PBool(FALSE), PInt(0)}
        THEN Resolved(PInt(0))
        ELSE ~rout.ok

----------------------------------------------------------------------------
(* _parse_app_instance_name on its own: one name, parsed once *)

MaxNameLen == 5
MaxNumber == 12

\* the characters names are drawn from: a letter, the underscore, two
\* digits, and a character that is neither a word character nor '-'
NameChars == {"a", "_", "1", "0", "!"}

YOLO == <<"y", "o", "l", "o">>

\* the names of the docstring of _parse_app_instance_name
DocNames ==
    {YOLO, YOLO \o <<"1">>, YOLO \o SEP \o <<"0">>, YOLO \o SEP \o <<"1">>,
     YOLO \o SEP \o <<"2", "3">>, YOLO \o SEP \o <<"4", "2">> \o SEP \o <<"7", "2">>,
     YOLO \o SEP \o <<"2", "3", "q", "d", "q", "s", "d">>,
     YOLO \o SEP \o <<"2", "3", "q", "d", "q", "s", "d", "5", "6">>}

NameInputs == UNION {[1..k -> NameChars] : k \in 0..MaxNameLen} \cup DocNames

\* the ids of manifests: every string of the characters above, and yolo
IdInputs == UNION {[1..k -> NameChars] : k \in 0..MaxNameLen - 2} \cup {YOLO}

\* what is parsed: a name as given, or the name app_install forms for an
\* id and an instance number
ParserInputs ==
    [name : NameInputs, id : {<<>>}, n : {0}]
        \cup {[name |-> InstanceName(id, n), id |-> id, n |-> n] :
                 id \in {i \in IdInputs : i # <<>> /\ ~Contains(i, SEP)}, n \in 1..MaxNumber}

InitNames ==
    /\ dirs = NoDirs
    /\ perms = NoDirs
    /\ hooks = {}
    /\ call = Idle
    /\ nops = 0
    /\ rin \in ParserInputs
    /\ rout = Pending

\* _parse_app_instance_name(name) on a name as given
ParseGiven ==
    /\ rout = Pending
    /\ rin.n = 0
    /\ rout' = ParseAppInstanceName(rin.name)
    /\ UNCHANGED <<dirs, perms, hooks, call, nops, rin>>

\* _parse_app_instance_name on the name of an installed instance, as
\* app_remove, app_upgrade and app_change_url call it
ParseFormed ==
    /\ rout = Pending
    /\ rin.n > 0
    /\ rout' = ParseAppInstanceName(rin.name)
    /\ UNCHANGED <<dirs, perms, hooks, call, nops, rin>>

NextNames == ParseGiven \/ ParseFormed

SpecNames == InitNames /\ [][NextNames]_vars

\* a name was parsed
Parsed == rout # Pending

\* the name is not empty and made of word characters and '-' only
WellFormed(name) == name # <<>> /\ \A i \in 1..Len(name) : name[i] \in WordChars

\* the lengths of the parts of the name that are followed by '__' and a
\* positive integer without leading zero up to the end of the name
SuffixAfter(name) ==
    {k \in 0..Len(name) :
        /\ k + 3 <= Len(name)
        /\ SubSeq(name, k + 1, k + 2) = SEP
        /\ From(name, k + 2)[1] \in Range(DigitChars) \ {"0"}
        /\ \A i \in k + 3..Len(name) : name[i] \in Range(DigitChars)}

\* the number a string of digits writes
RECURSIVE Number(_)
Number(ds) ==
    IF ds = <<>> THEN 0
    ELSE 10 * Number(SubSeq(ds, 1, Len(ds) - 1))
            + (CHOOSE v \in 0..9 : DigitChars[v + 1] = ds[Len(ds)])

\* what the claim expects of a name whose suffix may start after min parts
Expected(name, min) ==
    LET ks == {k \in SuffixAfter(name) : k >= min}
    IN  IF ks = {} THEN <<name, 1>>
        ELSE LET k == CHOOSE k \in ks : \A j \in ks : j <= k
             IN  <<SubSeq(name, 1, k), Number(From(name, k + 2))>>

\* C12 as stated, for the names made of word characters and '-': the part
\* before a suffix '__N', N a positive integer without leading zero, and N;
\* the whole name and 1 otherwise
C12_ParsesSuffix ==
    (Parsed /\ WellFormed(rin.name)) =>
        (rout.ok /\ <<rout.appid, rout.nb>> = Expected(rin.name, 0))

\* C12: as above, the suffix '__N' counting only when an app id of at least
\* one character comes before it
C12_ParsesSuffixAfterId ==
    (Parsed /\ WellFormed(rin.name)) =>
        (rout.ok /\ <<rout.appid, rout.nb>> = Expected(rin.name, 1))

\* yolo__42__72 was parsed to (yolo__42, 72)
C12_Witness ==
    /\ Parsed
    /\ rin.name = YOLO \o SEP \o <<"4", "2">> \o SEP \o <<"7", "2">>
    /\ rout.appid = YOLO \o SEP \o <<"4", "2">>
    /\ rout.nb = 72

\* C13: _parse_app_instance_name returns a pair for every string
C13_Total == Parsed => rout.ok

\* C14: the name app_install forms for an accepted id and a number n >= 1
\* parses back to (id, n)
C14_RoundTrip ==
    (Parsed /\ rin.n > 0) => (rout.ok /\ rout.appid = rin.id /\ rout.nb = rin.n)

----------------------------------------------------------------------------
(* _installed_instance_number on its own: one listing, counted once *)

MaxListed == 3

\* the directories that may exist: instances of the apps a, a_ and b
A_ == <<"a", "_">>
ListedNames ==
    {<<"a">>, <<"a">> \o SEP \o <<"2">>, <<"a">> \o SEP \o <<"3">>,
     <<"a">> \o SEP \o <<"1", "0">>, A_, A_ \o SEP \o <<"2">>,
     <<"b">>, <<"b">> \o SEP \o <<"2">>}

\* what is counted: the app and the listing os.listdir returns
CounterInputs ==
    [app : {<<"a">>, A_, <<"b">>},
     ls : UNION {Listings(D) : D \in {D \in SUBSET ListedNames : Cardinality(D) <= MaxListed}}]

InitNumber ==
    /\ dirs = NoDirs
    /\ perms = NoDirs
    /\ hooks = {}
    /\ call = Idle
    /\ nops = 0
    /\ rin \in CounterInputs
    /\ rout = Pending

\* instance_number = _installed_instance_number(auth, app_id, last=True) + 1
CountInstances ==
    /\ rout = Pending
    /\ rout' = IF InstanceNumberRaises(rin.ls, rin.app)
               THEN [ok |-> FALSE, n |-> 0]
               ELSE [ok |-> TRUE, n |-> InstalledInstanceNumber(rin.ls, rin.app) + 1]
    /\ UNCHANGED <<dirs, perms, hooks, call, nops, rin>>

NextNumber == CountInstances

SpecNumber == InitNumber /\ [][NextNumber]_vars

\* the numeric suffixes of the listed directories whose app id is the app,
\* the directory of the app itself counting for 1
SuffixesOf(ls, app) ==
    {Expected(ls[i], 1)[2] : i \in {j \in 1..Len(ls) : Expected(ls[j], 1)[1] = app}}

\* C15: the instance number of a new install is 1 if no directory is named
\* exactly as the app, and otherwise 1 + the largest numeric suffix among
\* the directories of the app
C15_NextInstanceNumber ==
    rout # Pending =>
        /\ rout.ok
        /\ rout.n = IF \A i \in 1..Len(rin.ls) : rin.ls[i] # rin.app THEN 1
                    ELSE 1 + (CHOOSE n \in SuffixesOf(rin.ls, rin.app) :
                                 \A k \in SuffixesOf(rin.ls, rin.app) : k <= n)

----------------------------------------------------------------------------
(* Properties of app_change_url *)

\* the step is an app_change_url
ChangeUrlStep == call.op = "none" /\ call'.op = "change_url"

\* C16: if the change_url script returns non-zero, the settings of the
\* instance are, when app_change_url returns, what they were before it
\* started, and the URLs of the permissions are unchanged
C16_FailedScriptRestores ==
    [][(/\ ChangeUrlStep
        /\ Has(call'.log, "change_url_script")
        /\ call'.out.k = "ret" /\ call'.out.code # 0)
          => (/\ dirs'[call'.target].settings = dirs[call'.target].settings
              /\ perms' = perms)]_vars

\* the request of an app_change_url is refused by the claim's rule: the
\* instance is not installed, has no change_url script, is at the requested
\* location already, the domain is unknown, or another instance on the
\* domain has a conflicting path
ChangeUrlRefusable(d, t, domain, path) ==
    \/ t \notin DOMAIN d
    \/ ~Catalog[d[t].app].change_url
    \/ /\ {"domain", "path"} \subseteq DOMAIN d[t].settings
       /\ d[t].settings["domain"] = domain
       /\ NormalizeUrlPath(d[t].settings["path"]) = path
    \/ domain \notin Domains
    \/ \E n \in DOMAIN d \ {t} :
          /\ {"domain", "path"} \subseteq DOMAIN d[n].settings
          /\ d[n].settings["domain"] = domain
          /\ PathsConflict(path, d[n].settings["path"])

\* C17: app_change_url fails, without running the change_url script and
\* without modifying any settings, when the app is not installed, has no
\* change_url script, is asked for the location it has once normalized, is
\* asked for an unknown domain or for a location in conflict with another
\* instance
C17_RefusedChangeWritesNothing ==
    [][(ChangeUrlStep /\ ChangeUrlRefusable(dirs, call'.target, call'.domain, call'.path))
          => (/\ call'.err # NoErr
              /\ ~Has(call'.log, "change_url_script")
              /\ dirs' = dirs
              /\ perms' = perms)]_vars

\* a change to a location in conflict with another instance was refused
C17_Witness ==
    /\ call.op = "change_url"
    /\ call.err.key \in {"app_location_already_used", "app_location_install_failed"}
    /\ call.target \in DOMAIN dirs
    /\ \E n \in DOMAIN dirs \ {call.target} :
          /\ {"domain", "path"} \subseteq DOMAIN dirs[n].settings
          /\ dirs[n].settings["domain"] = call.domain
          /\ PathsConflict(call.path, dirs[n].settings["path"])

\* C18: when the change_url script returns 0 and nginx reloads, the
\* settings hold the new normalized domain and path, the permission has the
\* new URL and no longer the old one, and app_map lists the instance at the
\* new path only
C18_MovedOnSuccess ==
    [][(ChangeUrlStep /\ Has(call'.log, "post_app_change_url"))
          => LET t == call'.target
                 old == dirs[t].settings["domain"] \o dirs[t].settings["path"]
                 new == call'.domain \o call'.path
             IN  /\ call'.err = NoErr
                 /\ dirs'[t].settings["domain"] = call'.domain
                 /\ dirs'[t].settings["path"] = call'.path
                 /\ new \in perms'[t]
                 /\ old # new => old \notin perms'[t]
                 /\ \A ls \in Listings(DOMAIN dirs') :
                       {e \in AppMapOver(ls, [n \in DOMAIN dirs' |-> dirs'[n].settings], {}) :
                           e[3] = t} = {<<call'.domain, call'.path, t>>}]_vars

\* C19: if the change_url script returns 0 and the reload of nginx fails,
\* app_change_url raises an error while the settings and the permission
\* hold the new domain and path
C19_FailedReloadKeepsMove ==
    [][(/\ ChangeUrlStep
        /\ Has(call'.log, "permission_update")
        /\ ~Has(call'.log, "post_app_change_url"))
          => (/\ call'.err = Err("EINVAL", "app_change_url_failed_nginx_reload")
              /\ dirs'[call'.target].settings["domain"] = call'.domain
              /\ dirs'[call'.target].settings["path"] = call'.path
              /\ (call'.domain \o call'.path) \in perms'[call'.target]
              /\ <<call'.domain, call'.path>>
                    # <<dirs[call'.target].settings["domain"],
                        NormalizeUrlPath(dirs[call'.target].settings["path"])>>)]_vars

\* the reload failed after a move to another domain
C19_Witness ==
    /\ call.op = "change_url"
    /\ call.err = Err("EINVAL", "app_change_url_failed_nginx_reload")
    /\ dirs[call.target].settings["domain"] = call.domain
    /\ dirs[call.target].settings["path"] = call.path
    /\ (call.domain \o call.path) \in perms[call.target]


----------------------------------------------------------------------------
(* app_upgrade on its own: one batch over the installed instances *)

MaxBatch == 3

\* the instances a batch may name
UpgradeNames == {<<"a">>, <<"b">>}

\* what hook_exec gives back for an upgrade script
UpgradeOutcomes == {Ret(0), Ret(1), Raise("Exception")}

\* what fetching a source gives: the fetch raising app_sources_fetch_failed,
\* or a manifest of the id, with or without unmet requirements
SourcesOf(id) ==
    {[fetch_ok |-> FALSE, requirements |-> "none", id |-> id],
     [fetch_ok |-> TRUE, requirements |-> "none", id |-> id],
     [fetch_ok |-> TRUE, requirements |-> "unmet", id |-> id]}

Sources == UNION {SourcesOf(id) : id \in UpgradeNames}

\* the url argument: none, or what fetching it gives, which may be a
\* manifest without id or with the separator in its id
NoUrl == [fetch_ok |-> FALSE, requirements |-> "", id |-> <<>>]
UrlSources ==
    SourcesOf(<<"a">>)
        \cup {[fetch_ok |-> TRUE, requirements |-> "none", id |-> Catalog[r].id] :
                 r \in {"noid", "badid"}}

\* an instance as app_upgrade finds it: its directory exists or not,
\* lastUpdate of its entry in the app list (0: the entry has no lastUpdate
\* or no git), update_time of its settings, what fetching it by name gives
\* and what its upgrade script does, and whether it has a status.json
NotInstalled ==
    [installed |-> FALSE, lastUpdate |-> 0, update_time |-> 1,
     source |-> NoUrl, script |-> Ret(0), status |-> FALSE]
InstanceStates ==
    {NotInstalled} \cup
    {r \in [installed : {TRUE}, lastUpdate : 0..2, update_time : {1},
            source : Sources, script : UpgradeOutcomes, status : BOOLEAN] :
        (~r.source.fetch_ok \/ r.source.requirements = "unmet") => r.script = Ret(0)}

\* a batch: the app argument, the url argument, the instances, each with
\* the source the app list has for it, and the order in which app_list
\* gives the installed ones
UpgradeInputs ==
    {in \in [apps : UNION {[1..k -> UpgradeNames] : k \in 0..MaxBatch},
             url : {NoUrl} \cup UrlSources,
             inst : [UpgradeNames -> InstanceStates],
             ls : UNION {Listings(D) : D \in SUBSET UpgradeNames}] :
        /\ in.ls \in Listings({n \in UpgradeNames : in.inst[n].installed})
        /\ \A n \in UpgradeNames : in.inst[n].installed => in.inst[n].source.id = n}

\* app_info(app, raw=True)['upgradable']
Upgradable(i) ==
    IF i.lastUpdate = 0 THEN "url_required"
    ELSE IF i.lastUpdate > i.update_time THEN "yes"
    ELSE "no"

\* a step of the batch, with the instance it is about
UpEv(e, name) == [e |-> e, script |-> "", args |-> <<name>>, env |-> <<>>]

\* manifest['remote'] as _fetch_app_from_git stores it: from is "url" for
\* the url argument, "list" for the instance's entry of the app list
GitRemote(from) == [type |-> "git", from |-> from]

\* the status record: none, the one app_install left, the one
\* _get_app_status makes when there is none
NoStatus == [present |-> FALSE, upgraded_at |-> 0, remote |-> [type |-> "", from |-> ""]]
StatusRecord(upgraded_at, remote) == [present |-> TRUE, upgraded_at |-> upgraded_at, remote |-> remote]

\* what an instance keeps on disk and in the hook registry: the update_time
\* setting, the status record, the tree of scripts, manifest and conf (the
\* id of its manifest and whether it is the fetched one), and its hooks
DurableOf(name, i) ==
    [update_time |-> IF i.installed THEN i.update_time ELSE 0,
     status |-> IF i.installed /\ i.status
                THEN StatusRecord(i.update_time, GitRemote("install"))
                ELSE NoStatus,
     tree |-> [id |-> name, fetched |-> FALSE],
     hooks |-> IF i.installed THEN "installed" ELSE ""]

\* _get_app_status(app_id): the status read, the record being created from
\* the settings when the instance has none
GetAppStatus(d) ==
    IF d.status.present THEN d
    ELSE [d EXCEPT !.status = StatusRecord(d.update_time, [type |-> "None", from |-> ""])]

\* what a batch has done so far: its steps, upgraded_apps, the exception
\* that left the loop and what the instances keep
Batch(log, upgraded_apps, err, durable) ==
    [log |-> log, upgraded_apps |-> upgraded_apps, err |-> err, durable |-> durable]

\* the body of the loop of app_upgrade for one instance after its source
\* was chosen: requirements, arguments, the script and what follows it
UpgradeFrom(name, i, source, remote, b) ==
    LET manifest == Manifest(source.id, FALSE, source.requirements, FALSE, FALSE)
        log1 == Append(b.log, UpEv("fetch", name))
        p == ParseAppInstanceName(name)
        run == HookEv("upgrade", <<name>>, IdEnv(p.appid, name, p.nb))
        log2 == Append(log1, run)
        read == [b.durable EXCEPT ![name] = GetAppStatus(b.durable[name])]
        now == 1 + Len(log2)
        written == [read EXCEPT ![name] =
                       [update_time |-> now,
                        status |-> StatusRecord(now, remote),
                        tree |-> [id |-> source.id, fetched |-> TRUE],
                        hooks |-> "fetched"]]
    IN  IF ~source.fetch_ok
        THEN Batch(log1, b.upgraded_apps, Err("EIO", "app_sources_fetch_failed"), b.durable)
        ELSE IF CheckManifestRequirements(manifest) # NoErr
        THEN Batch(log1, b.upgraded_apps, CheckManifestRequirements(manifest), b.durable)
        ELSE IF i.script.k # "ret"
        THEN Batch(log2, b.upgraded_apps, Err(i.script.k, "hook_exec"), read)
        ELSE IF i.script.code # 0
        THEN Batch(Append(log2, UpEv("app_upgrade_failed", name)), b.upgraded_apps, NoErr, read)
        ELSE Batch(log2 \o <<UpEv("update_time", name), UpEv("hook_remove", name),
                              UpEv("status", name), UpEv("replace_scripts", name),
                              UpEv("app_upgraded", name),
                              UpEv("post_app_upgrade", name)>>,
                   Append(b.upgraded_apps, name), NoErr, written)

\* the loop of app_upgrade over apps
RECURSIVE UpgradeLoop(_, _, _, _)
UpgradeLoop(apps, in, user_specified_list, b) ==
    IF apps = <<>> \/ b.err # NoErr THEN b
    ELSE LET name == Head(apps)
             i == in.inst[name]
             seen == [b EXCEPT !.log = Append(b.log, UpEv("app_upgrade_app_name", name))]
             skip(e) == [seen EXCEPT !.log = Append(seen.log, UpEv(e, name))]
             after ==
                 IF ~i.installed
                 THEN [seen EXCEPT !.err = Err("ENOPKG", "app_not_installed")]
                 ELSE IF \E k \in 1..Len(b.upgraded_apps) : b.upgraded_apps[k] = name THEN seen
                 ELSE IF in.url # NoUrl THEN UpgradeFrom(name, i, in.url, GitRemote("url"), seen)
                 ELSE IF Upgradable(i) = "url_required" THEN skip("custom_app_url_required")
                 ELSE IF Upgradable(i) = "yes" THEN UpgradeFrom(name, i, i.source, GitRemote("list"), seen)
                 ELSE IF user_specified_list THEN skip("app_already_up_to_date")
                 ELSE seen
         IN  UpgradeLoop(Tail(apps), in, user_specified_list, after)

\* app_upgrade(auth, app, url): the steps taken, the instances upgraded, the
\* error raised (NoErr when it returns) and whether permissions were synced
AppUpgradeResult(in) ==
    LET all == in.apps = <<>> /\ in.url = NoUrl
        apps == IF all THEN in.ls ELSE in.apps
        b == UpgradeLoop(apps, in, ~all,
                         Batch(<<>>, <<>>, NoErr, [n \in UpgradeNames |-> DurableOf(n, in.inst[n])]))
    IN  IF b.err # NoErr THEN [b EXCEPT !.log = Append(b.log, Ev("raise"))]
        ELSE IF b.upgraded_apps = <<>>
        THEN Batch(Append(b.log, Ev("raise")), <<>>, Err("ENODATA", "app_no_upgrade"), b.durable)
        ELSE [b EXCEPT !.log = b.log \o <<Ev("permission_sync_to_user"), Ev("upgrade_complete")>>]

InitUpgrade ==
    /\ dirs = NoDirs
    /\ perms = NoDirs
    /\ hooks = {}
    /\ call = Idle
    /\ nops = 0
    /\ rin \in UpgradeInputs
    /\ rout = Pending

AppUpgrade ==
    /\ rout = Pending
    /\ rout' = AppUpgradeResult(rin)
    /\ UNCHANGED <<dirs, perms, hooks, call, nops, rin>>

NextUpgrade == AppUpgrade

SpecUpgrade == InitUpgrade /\ [][NextUpgrade]_vars

\* the batch has ended
Upgraded == rout # Pending

\* the instances the batch was asked to upgrade, in order
Requested ==
    IF rin.apps = <<>> /\ rin.url = NoUrl THEN rin.ls ELSE rin.apps

\* the steps of the batch that are about the instance
About(log, name) == {j \in 1..Len(log) : log[j].args = <<name>>}

\* the upgrade of the instance failed: its source could not be fetched, its
\* requirements are unmet, or its script raised or returned non-zero
FailedSteps(log) ==
    {j \in 1..Len(log) :
        \/ log[j].e = "app_upgrade_failed"
        \/ /\ log[j].e \in {"fetch", "hook_exec"}
           /\ j < Len(log)
           /\ log[j + 1].e = "raise"}

\* C20: when the upgrade of one requested instance fails, every requested
\* instance after it is still processed and the batch does not end with the
\* error of that instance
C20_FailureIsolated ==
    Upgraded =>
        \A j \in FailedSteps(rout.log) :
            /\ \A k \in 1..Len(Requested) :
                   \E m \in About(rout.log, Requested[k]) :
                       rout.log[m].e = "app_upgrade_app_name"
            /\ rout.err \in {NoErr, Err("ENODATA", "app_no_upgrade")}


\* the runs of the upgrade script of the instance in the batch
UpgradeRuns(log, name) == {j \in About(log, name) : log[j].e = "hook_exec"}

\* an upgrade script was run and returned 0 during the batch
SomeScriptReturnedZero ==
    \E name \in UpgradeNames :
        UpgradeRuns(rout.log, name) # {} /\ rin.inst[name].script = Ret(0)

\* every requested instance is installed
RequestedInstalled ==
    \A k \in 1..Len(Requested) : rin.inst[Requested[k]].installed

\* C21: over installed instances app_upgrade returns if and only if an
\* upgrade script was run and returned 0 during the batch; when none did, it
\* ends with the no-upgrade error and without a permission synchronization
C21_SucceedsIffUpgraded ==
    (Upgraded /\ RequestedInstalled) =>
        /\ (rout.err = NoErr) <=> SomeScriptReturnedZero
        /\ ~SomeScriptReturnedZero =>
               /\ rout.err = Err("ENODATA", "app_no_upgrade")
               /\ ~Has(rout.log, "permission_sync_to_user")

\* C22: in one batch the upgrade script of an instance is run at most once,
\* however often the instance is named and however its first run ended
C22_RunAtMostOnce ==
    Upgraded =>
        \A name \in UpgradeNames : Cardinality(UpgradeRuns(rout.log, name)) <= 1


----------------------------------------------------------------------------
(* normalize_url_path on its own: one path, normalized once and again *)

MaxPathLen == 4

\* the characters of the paths: a slash, a letter and a blank
PathChars == {"/", "a", " "}

PathStrings == UNION {[1..k -> PathChars] : k \in 0..MaxPathLen}

InitPath ==
    /\ dirs = NoDirs
    /\ perms = NoDirs
    /\ hooks = {}
    /\ call = Idle
    /\ nops = 0
    /\ rin \in PathStrings
    /\ rout = Pending

\* normalize_url_path(p), and normalize_url_path of what it returned
NormalizePath ==
    /\ rout = Pending
    /\ rout' = [once |-> NormalizeUrlPath(rin),
                twice |-> NormalizeUrlPath(NormalizeUrlPath(rin))]
    /\ UNCHANGED <<dirs, perms, hooks, call, nops, rin>>

NextPath == NormalizePath

SpecPath == InitPath /\ [][NextPath]_vars

\* the path has been normalized
Normalized == rout # Pending

\* C23: normalizing a normalized path changes nothing, and a normalized
\* path starts and ends with one slash
C23_NormalizeIdempotent ==
    Normalized =>
        /\ rout.twice = rout.once
        /\ Head(rout.once) = "/"
        /\ rout.once[Len(rout.once)] = "/"
        /\ Len(rout.once) > 1 =>
               /\ rout.once[2] # "/"
               /\ rout.once[Len(rout.once) - 1] # "/"


----------------------------------------------------------------------------
(* The resolver over an action's whole argument list, with the argument
   list and the environment derived from what it returns *)

MaxArgs == 3

DOMAIN2_ARG == <<"d", "2">>
PATH2_ARG == <<"p", "2">>

\* the arguments an action may declare: a required domain, a domain with a
\* default, an optional path, a path with a default, an optional string
DeclaredArgs ==
    {ArgSpec(DOMAIN_ARG, "domain", NONE, <<>>, FALSE, FALSE),
     ArgSpec(DOMAIN2_ARG, "domain", PStr(<<"e">>), <<>>, FALSE, FALSE),
     ArgSpec(PATH_ARG, "path", NONE, <<>>, TRUE, FALSE),
     ArgSpec(PATH2_ARG, "path", PStr(<<"/", "c">>), <<>>, FALSE, FALSE),
     ArgSpec(ARG, "string", NONE, <<>>, TRUE, FALSE)}

\* action['arguments']: the declared arguments in some order, none twice
ActionLists ==
    {l \in UNION {[1..k -> DeclaredArgs] : k \in 0..MaxArgs} :
        \A i, j \in 1..Len(l) : l[i] = l[j] => i = j}

\* dict(urlparse.parse_qsl(args)): what the caller gives, by name
CallerArgs ==
    {dm @@ pa @@ x :
        dm \in {NoDirs} \cup {Given(DOMAIN_ARG, v) : v \in Domains},
        pa \in {NoDirs} \cup {Given(PATH_ARG, v) :
                    v \in {<<"a">>, <<"/", "a", "/">>, <<"/", "a", "/", "b">>}},
        x \in {NoDirs, Given(ARG, <<>>), Given(ARG, FOO)}}

\* app_map(raw=True) of the instances already installed
AppMaps ==
    {{}, {<<(<<"d">>), <<"/", "a">>, <<"a">>>>},
     {<<(<<"d">>), <<"/", "a">>, <<"a">>>>, <<(<<"d">>), <<"/", "a", "/", "b">>, <<"b">>>>}}

ActionInputs ==
    [action_args : ActionLists, args : CallerArgs, appmap : AppMaps,
     app : {<<"a">>, <<"b">> \o SEP \o <<"2">>}]

ActionCtx(in) ==
    [domains |-> Domains, maindomain |-> MainDomain, users |-> {}, strong |-> {},
     installed |-> {}, appmap |-> in.appmap, interactive |-> FALSE, answers |-> <<>>]

\* the id of the action run by app_action_run
ACTION_ID == <<"r", "u", "n">>

\* args_list of app_action_run
ActionArgsList(args_odict) == OdValues(args_odict)

\* env_dict of app_action_run
ActionEnv(args_odict, app, action) ==
    [k \in {<<"YNH_ACTION", <<>>>>} |-> PStr(action)]
        @@ IdEnv(ParseAppInstanceName(app).appid, app, ParseAppInstanceName(app).nb)
        @@ MakeEnvironmentDict(args_odict, "YNH_ACTION_")

InitAction ==
    /\ dirs = NoDirs
    /\ perms = NoDirs
    /\ hooks = {}
    /\ call = Idle
    /\ nops = 0
    /\ rin \in ActionInputs
    /\ rout = Pending

\* the arguments resolved, and what app_install and app_action_run derive
\* from them for the script
ResolveAction ==
    /\ rout = Pending
    /\ LET r == ParseActionArgs(rin.args, rin.action_args, ActionCtx(rin))
           p == ParseAppInstanceName(rin.app)
       IN  rout' = [ok |-> r.ok, odict |-> r.odict, err |-> r.err,
                    apps |-> IF r.err.key = "app_location_unavailable" THEN r.apps ELSE {},
                    install_args |-> InstallArgsList(r.odict, rin.app),
                    install_env |-> InstallEnv(r.odict, p.appid, rin.app, p.nb),
                    action_args |-> ActionArgsList(r.odict),
                    action_env |-> ActionEnv(r.odict, rin.app, ACTION_ID)]
    /\ UNCHANGED <<dirs, perms, hooks, call, nops, rin>>

NextAction == ResolveAction

SpecAction == InitAction /\ [][NextAction]_vars


\* the resolver has run over the action's arguments
ActionResolved == rout # Pending

\* the names of the declared arguments of a type
DeclaredOfType(type) ==
    {rin.action_args[i].name : i \in {j \in 1..Len(rin.action_args) : rin.action_args[j].type = type}}

\* exactly one domain and exactly one path argument are declared
PairDeclared ==
    Cardinality(DeclaredOfType("domain")) = 1 /\ Cardinality(DeclaredOfType("path")) = 1

\* each argument resolved on its own, without the check of the pair
Individually == ResolveFrom(1, rin.action_args, rin.args, ActionCtx(rin), <<>>)

\* the domain and the path of the pair as resolved individually, and as
\* _normalize_domain_path returns them
RawDomain == OdGet(Individually.odict, CHOOSE n \in DeclaredOfType("domain") : TRUE)[2]
RawPath == OdGet(Individually.odict, CHOOSE n \in DeclaredOfType("path") : TRUE)[2]
NormalPair == NormalizeDomainPath(RawDomain, RawPath)

\* the instances whose location conflicts with the normalized pair
Conflicting ==
    {e \in rin.appmap : e[1] = NormalPair[1] /\ PathsConflict(NormalPair[2], e[2])}

\* C24: with exactly one domain and one path argument declared, resolution
\* fails on a conflict of the normalized pair, listing every conflicting
\* location, and otherwise resolves the path argument to the normalized
\* path; with any other declaration every argument keeps the value it
\* resolved to on its own and no location is checked
C24_PairNormalizedAndChecked ==
    (ActionResolved /\ Individually.ok) =>
        IF PairDeclared
        THEN IF Conflicting # {}
             THEN /\ ~rout.ok
                  /\ rout.err = Err("EINVAL", "app_location_unavailable")
                  /\ rout.apps = Conflicting
             ELSE /\ rout.ok
                  /\ OdGet(rout.odict, CHOOSE n \in DeclaredOfType("path") : TRUE)
                        = PStr(NormalPair[2])
                  /\ \A i \in 1..Len(rout.odict) :
                         rout.odict[i][1] \notin DeclaredOfType("path")
                            => rout.odict[i] = Individually.odict[i]
        ELSE rout.ok /\ rout.odict = Individually.odict

\* a pair whose raw path was replaced by its normalized form
C24_Witness ==
    /\ ActionResolved
    /\ PairDeclared
    /\ rout.ok
    /\ RawPath # NormalPair[2]
    /\ rin.appmap # {}
    /\ Len(rin.action_args) = 3

\* a pair refused for two conflicting locations
C24_WitnessConflict ==
    ActionResolved /\ PairDeclared /\ Individually.ok /\ Cardinality(Conflicting) = 2


----------------------------------------------------------------------------
(* Properties of the resolver of one argument: optional and invalid values *)

\* nothing is there for the argument: no value from the caller, no answer
\* to a prompt and no default
Absent ==
    /\ rin.args = NoDirs
    /\ ~(rin.arg.ask /\ rin.interactive /\ rin.answer # <<>>)
    /\ rin.arg.default = NONE
    /\ ~DefaultReplaced

\* the caller gave the empty string
GivenEmpty == rin.args = Given(ARG, <<>>)

\* C25: an optional argument with no value, no answer and no default
\* resolves to the empty string, an optional argument that is absent or
\* empty never makes the resolution fail, and the resolved arguments hold
\* one entry for the declared argument
C25_OptionalAbsentIsEmpty ==
    (rout # Pending /\ rin.arg.optional) =>
        /\ Absent => Resolved(EMPTY)
        /\ (Absent \/ GivenEmpty) => rout.ok
        /\ rout.ok => OdKeys(rout.odict) = <<ARG>>


\* the value found for the argument before it is validated
Retrieved == RetrieveValue(rin.arg, rin.args, ResolverCtx(rin))

\* the value is not one the argument can take: not a domain, not an
\* installed instance, not a user, or not one of the declared choices
NotAValue(v) ==
    \/ rin.arg.type = "domain" /\ ~(IsStr(v) /\ v[2] \in ResolverCtx(rin).domains)
    \/ rin.arg.type = "app" /\ ~(IsStr(v) /\ v[2] \in ResolverCtx(rin).installed)
    \/ rin.arg.type = "user" /\ ~(IsStr(v) /\ v[2] \in ResolverCtx(rin).users)
    \/ rin.arg.choices # <<>> /\ ~PyIn(v, rin.arg.choices)

C26_UnknownDomainInstallsNothing ==
    [][(/\ call.op = "none"
        /\ call'.op = "install"
        /\ call'.err.key \notin {"app_unknown", "app_id_invalid", "app_already_installed",
                                 "app_incompatible", "app_requirements_unmeet", "int"}
        /\ call'.domain \notin Domains \cup {<<>>})
          => (/\ call'.err = Err("EINVAL", "app_argument_invalid")
              /\ dirs' = dirs /\ perms' = perms /\ hooks' = hooks /\ call'.log = <<>>)]_vars


----------------------------------------------------------------------------
(* Properties of what is derived from the resolved arguments *)

\* the environment holds one entry per resolved argument, under the prefix
\* and the upper-cased name, with the resolved value
EnvOfArgs(env, prefix) ==
    /\ \A i \in 1..Len(rout.odict) :
           /\ <<prefix, Upper(rout.odict[i][1])>> \in DOMAIN env
           /\ env[<<prefix, Upper(rout.odict[i][1])>>] = rout.odict[i][2]
    /\ Cardinality({k \in DOMAIN env : k[1] = prefix}) = Len(rout.odict)

\* C27: the resolved arguments are in declaration order; the argument list
\* of a script, for an install and for an action alike, is their values in
\* that order followed by the instance name; the environment holds one
\* prefixed, upper-cased entry per resolved argument with its value
C27_DerivedListAndEnvironment ==
    (ActionResolved /\ rout.ok) =>
        /\ OdKeys(rout.odict) = [i \in 1..Len(rin.action_args) |-> rin.action_args[i].name]
        /\ rout.install_args = OdValues(rout.odict) \o <<PStr(rin.app)>>
        /\ rout.action_args = OdValues(rout.odict) \o <<PStr(rin.app)>>
        /\ EnvOfArgs(rout.install_env, "YNH_APP_ARG_")
        /\ EnvOfArgs(rout.action_env, "YNH_ACTION_")


----------------------------------------------------------------------------
(* Properties of app_install: the order of its steps *)

\* C28: in an app_install that runs the install script, the main permission
\* of the instance is registered after the initial settings are written and
\* before the install script starts
C28_PermissionBeforeScript ==
    (call.op = "install" /\ Has(call.log, "install_script")) =>
        \A k \in Where(call.log, "install_script") :
            \E i, j \in 1..Len(call.log) :
                /\ i < j /\ j < k
                /\ call.log[i].e = "set_app_settings"
                /\ call.log[j].e = "permission_add"

\* an install ran its script and committed
C28_Witness ==
    /\ call.op = "install"
    /\ Has(call.log, "install_script")
    /\ call.err = NoErr
    /\ call.name \in DOMAIN dirs


\* the domain and path settings of every instance
LocationSettings(d) ==
    [n \in DOMAIN d |->
        [k \in DOMAIN d[n].settings \cap {"domain", "path"} |-> d[n].settings[k]]]

\* the steps of an invocation that write a domain or path setting or a
\* permission binding
ChangingSteps(log) ==
    {j \in 1..Len(log) :
        log[j].e \in {"set_app_settings", "permission_add", "install_script", "checkurl",
                      "restore", "permission_update", "permission_remove", "rmtree"}}

\* C29: an app_install, app_remove or app_change_url that returns with a
\* domain or path setting or a permission binding changed has synchronized
\* the permissions after the last step that wrote one
C29_SyncAfterLastChange ==
    [][(/\ call.op = "none"
        /\ call'.op \in {"install", "remove", "change_url"}
        /\ call'.err = NoErr
        /\ (perms' # perms \/ LocationSettings(dirs') # LocationSettings(dirs)))
          => \E k \in Where(call'.log, "permission_sync") :
                 \A j \in ChangingSteps(call'.log) : j < k]_vars


----------------------------------------------------------------------------
(* Properties of app_upgrade: the manifest it loads *)

\* the batch was given a url whose manifest has no id, or an id with the
\* separator in it, and reached an instance to upgrade from it
InvalidIdLoaded ==
    /\ Upgraded
    /\ rin.url # NoUrl
    /\ rin.url.fetch_ok
    /\ rin.url.id = <<>> \/ Contains(rin.url.id, SEP)
    /\ Has(rout.log, "fetch")

\* C30: a manifest without id, or with the separator in its id, is refused
\* as invalid before any of its scripts is run
C30_InvalidIdRejected ==
    InvalidIdLoaded =>
        /\ rout.err = Err("EINVAL", "app_id_invalid")
        /\ ~Has(rout.log, "hook_exec")

\* C30, for app_install: an install from a manifest without id, or with the
\* separator in its id, ends with the invalid-id error, nothing written
C30_InstallInvalidIdRejected ==
    [][(/\ call.op = "none"
        /\ call'.op = "install"
        /\ call'.ref \in {"noid", "badid"})
          => (/\ call'.err = Err("EINVAL", "app_id_invalid")
              /\ call'.log = <<>>
              /\ dirs' = dirs /\ perms' = perms /\ hooks' = hooks)]_vars


----------------------------------------------------------------------------
(* _check_manifest_requirements on its own: one manifest, one system *)

MaxVersion == 3

\* package versions, in order; MinMulti stands for 2.3.6
Versions == 1..MaxVersion
MinMulti == 2

\* a version specifier: an operator and a version; NoSpec for a package the
\* manifest requires nothing of
SpecOps == {">=", ">>", "<<", "="}
NoSpec == [op |-> "", v |-> 0]
Specifier(op, v) == [op |-> op, v |-> v]
Specifiers == [op : SpecOps, v : Versions]

\* version in SpecifierSet(spec)
Satisfies(version, spec) ==
    CASE spec.op = ">=" -> version >= spec.v
      [] spec.op = ">>" -> version > spec.v
      [] spec.op = "<<" -> version < spec.v
      [] spec.op = "="  -> version = spec.v

\* SpecifierSet(spec) & '>= 2.3.6' is not empty
MeetsMinMulti(spec) ==
    CASE spec.op \in {">=", ">>"} -> TRUE
      [] spec.op = "<<" -> spec.v > MinMulti
      [] spec.op = "="  -> spec.v >= MinMulti

\* a manifest and the system it is checked on: the 'yunohost' and one other
\* entry of its requirements, its deprecated min_version key (0: absent),
\* and the installed versions (0: the other package is not installed)
RequirementInputs ==
    [multi_instance : BOOLEAN,
     yunohost : {NoSpec} \cup Specifiers,
     pkg : {NoSpec} \cup Specifiers,
     min_version : {0} \cup Versions,
     installed_yunohost : Versions,
     installed_pkg : {0} \cup Versions]

\* the requirements as the check reads them: min_version replaces the
\* 'yunohost' entry
RequirementsOf(in) ==
    [yunohost |-> IF in.min_version # 0 THEN Specifier(">>", in.min_version)
                  ELSE in.yunohost,
     pkg |-> in.pkg]

\* the versions are retrieved and every requirement is checked against them
CheckEach(requirements, in) ==
    IF requirements.pkg # NoSpec /\ in.installed_pkg = 0
    THEN Err("EINVAL", "app_requirements_failed")
    ELSE IF \/ /\ requirements.yunohost # NoSpec
               /\ ~Satisfies(in.installed_yunohost, requirements.yunohost)
            \/ /\ requirements.pkg # NoSpec
               /\ ~Satisfies(in.installed_pkg, requirements.pkg)
    THEN Err("EINVAL", "app_requirements_unmeet")
    ELSE NoErr

\* _check_manifest_requirements(manifest, app_instance_name): the error
\* raised, NoErr when it returns
CheckManifestRequirementsOver(in) ==
    LET requirements == RequirementsOf(in)
    IN  IF in.multi_instance
        THEN IF \/ requirements.yunohost = NoSpec
                \/ ~MeetsMinMulti(requirements.yunohost)
             THEN Err("EINVAL", "app_incompatible")
             ELSE CheckEach(requirements, in)
        ELSE IF requirements.yunohost = NoSpec /\ requirements.pkg = NoSpec
        THEN NoErr
        ELSE CheckEach(requirements, in)

InitRequirements ==
    /\ dirs = NoDirs
    /\ perms = NoDirs
    /\ hooks = {}
    /\ call = Idle
    /\ nops = 0
    /\ rin \in RequirementInputs
    /\ rout = Pending

CheckRequirements ==
    /\ rout = Pending
    /\ rout' = CheckManifestRequirementsOver(rin)
    /\ UNCHANGED <<dirs, perms, hooks, call, nops, rin>>

NextRequirements == CheckRequirements

SpecRequirements == InitRequirements /\ [][NextRequirements]_vars

\* the manifest has been checked
RequirementsChecked == rout # Pending

\* the requirement '>= 2.3.6' on the platform
MinPlatform == Specifier(">=", MinMulti)

\* C31: a multi_instance manifest is checked with its platform requirement
\* replaced by the minimum version, whatever it states for that key: the
\* outcome is that of checking the minimum and its other requirements
C31_MinimumInjected ==
    (RequirementsChecked /\ rin.multi_instance) =>
        rout = CheckEach([RequirementsOf(rin) EXCEPT !.yunohost = MinPlatform], rin)

\* a multi_instance manifest that states no platform requirement is refused
\* as incompatible on a platform that meets the minimum
C31_NoRequirementRefused ==
    (/\ RequirementsChecked
     /\ rin.multi_instance
     /\ RequirementsOf(rin).yunohost = NoSpec
     /\ rin.pkg = NoSpec
     /\ rin.installed_yunohost >= MinMulti)
        => rout = Err("EINVAL", "app_incompatible")

\* a multi_instance manifest is never accepted on a platform that does not
\* meet its own platform requirement
C31_OwnRequirementChecked ==
    (/\ RequirementsChecked
     /\ rin.multi_instance
     /\ RequirementsOf(rin).yunohost # NoSpec
     /\ ~Satisfies(rin.installed_yunohost, RequirementsOf(rin).yunohost))
        => rout # NoErr


----------------------------------------------------------------------------
(* Properties of app_install: no_remove_on_failure *)

\* an app_install with no_remove_on_failure set has ended, its install
\* script having failed
FailedKeeping ==
    /\ InstallRan
    /\ call.no_remove
    /\ call.install_retcode # 0

\* C32: when the install script fails under no_remove_on_failure, the
\* remove script is not run, the permission bindings of the instance stay,
\* its settings directory stays, and the install error is raised
C32_RollbackSuppressed ==
    FailedKeeping =>
        /\ ~Has(call.log, "hook_exec")
        /\ ~Has(call.log, "permission_remove")
        /\ call.name \in DOMAIN perms
        /\ call.name \in DOMAIN dirs
        /\ call.err = InstallFailure(call.install_retcode)

\* under no_remove_on_failure the remove script and the permissions are
\* left alone and the install error is raised
C32_ScriptAndPermissionsSuppressed ==
    FailedKeeping =>
        /\ ~Has(call.log, "hook_exec")
        /\ ~Has(call.log, "permission_remove")
        /\ call.name \in DOMAIN perms
        /\ call.err = InstallFailure(call.install_retcode)

\* under no_remove_on_failure the settings directory of the instance is
\* deleted all the same
C32_DirectoryDeleted ==
    FailedKeeping => (Has(call.log, "rmtree") /\ call.name \notin DOMAIN dirs)


----------------------------------------------------------------------------
(* Properties of app_upgrade: what an instance keeps *)

\* what the instance kept before the batch
Before(n) == DurableOf(n, rin.inst[n])

\* the provenance of the manifest the batch fetches for an instance
Provenance == IF rin.url # NoUrl THEN GitRemote("url") ELSE GitRemote("list")

\* the instance is left as it was unless its upgrade script returned 0, and
\* then with one timestamp and the provenance of the fetched manifest
KeptOrUpgraded(n) ==
    \/ rout.durable[n] = Before(n)
    \/ /\ rin.inst[n].script = Ret(0)
       /\ \E k \in 1..Len(rout.upgraded_apps) : rout.upgraded_apps[k] = n
       /\ rout.durable[n].status.present
       /\ rout.durable[n].status.upgraded_at = rout.durable[n].update_time
       /\ rout.durable[n].status.remote = Provenance
       /\ rout.durable[n].tree.fetched
       /\ rout.durable[n].hooks = "fetched"

\* C33: an instance whose upgrade script returned non-zero keeps its
\* update_time, status record, tree and hooks; these change only when the
\* script returned 0, upgraded_at and update_time then being one timestamp
\* and the status remote the provenance of the fetched manifest
C33_DurableOnlyOnSuccess ==
    Upgraded => \A n \in UpgradeNames : KeptOrUpgraded(n)

\* the same for the instances that had a status record before the batch
C33_WithStatusRecord ==
    Upgraded => \A n \in UpgradeNames : rin.inst[n].status => KeptOrUpgraded(n)

\* an instance without status record has one after its upgrade script
\* returned non-zero
C33_StatusCreatedOnFailure ==
    Upgraded =>
        \A n \in UpgradeNames :
            (/\ rin.inst[n].installed
             /\ ~rin.inst[n].status
             /\ rin.inst[n].script = Ret(1)
             /\ \E j \in About(rout.log, n) : rout.log[j].e = "app_upgrade_failed")
                => (/\ rout.durable[n].status.present
                    /\ rout.durable[n] = [Before(n) EXCEPT !.status = rout.durable[n].status])

\* an upgraded instance is left with the fetched tree and hooks, one
\* timestamp and the provenance of the fetched manifest
C33_UpgradedIsWritten ==
    Upgraded =>
        \A n \in UpgradeNames :
            (\E k \in 1..Len(rout.upgraded_apps) : rout.upgraded_apps[k] = n)
                => (rout.durable[n] # Before(n) /\ KeptOrUpgraded(n))


----------------------------------------------------------------------------
(* Properties of app_remove *)

\* the instance is gone: no settings directory, no hooks, no permission
\* binding, and the permissions synchronized once, as the last step
Removed(name, d, p, h, log) ==
    /\ name \notin DOMAIN d
    /\ name \notin h
    /\ name \notin DOMAIN p
    /\ Cardinality(Where(log, "permission_sync")) = 1
    /\ log[Len(log)].e = "permission_sync"

\* C34: app_remove of an installed instance ends with its directory, hooks
\* and permission bindings gone and one permission synchronization after
\* that; app_remove of a name that is not installed fails with no effect
C34_RemoveRemoves ==
    [][(call.op = "none" /\ call'.op = "remove")
          => IF call'.target \in DOMAIN dirs
             THEN Removed(call'.target, dirs', perms', hooks', call'.log)
             ELSE /\ call'.err = Err("EINVAL", "app_not_installed")
                  /\ call'.log = <<>>
                  /\ dirs' = dirs /\ perms' = perms /\ hooks' = hooks]_vars

\* the same where hook_exec gave the exit code of the remove script back
C34_RemoveRemovesOnReturn ==
    [][(call.op = "none" /\ call'.op = "remove" /\ call'.out.k = "ret")
          => IF call'.target \in DOMAIN dirs
             THEN /\ Removed(call'.target, dirs', perms', hooks', call'.log)
                  /\ call'.err = NoErr
             ELSE /\ call'.err = Err("EINVAL", "app_not_installed")
                  /\ call'.log = <<>>
                  /\ dirs' = dirs /\ perms' = perms /\ hooks' = hooks]_vars

\* where hook_exec raised, the instance is left as it was
C34_KeptWhenHookRaises ==
    [][(/\ call.op = "none"
        /\ call'.op = "remove"
        /\ call'.out.k # "ret"
        /\ call'.target \in DOMAIN dirs)
          => (/\ call'.err = Err(call'.out.k, "hook_exec")
              /\ dirs' = dirs /\ perms' = perms /\ hooks' = hooks
              /\ ~Has(call'.log, "permission_sync"))]_vars


----------------------------------------------------------------------------
(* Properties of app_install: the instances that exist already *)

C35_WitnessCommit ==
    /\ call.op = "install"
    /\ call.err = NoErr
    /\ call.name = <<"b", "_", "_", "2">>
    /\ {<<"b">>, call.name} \subseteq DOMAIN dirs


----------------------------------------------------------------------------
(* The permission registry and the settings directories *)

\* C36: every permission binding of the registry belongs to an instance
\* whose settings directory exists
C36_BindingsHaveDirectory == DOMAIN perms \subseteq DOMAIN dirs

\* every operation keeps the bindings within the directories, but for an
\* app_install whose script failed under no_remove_on_failure
C36_KeptByOtherOperations ==
    [][(/\ DOMAIN perms \subseteq DOMAIN dirs
        /\ ~(/\ call'.op = "install"
             /\ call'.no_remove
             /\ Has(call'.log, "install_script")
             /\ call'.install_retcode # 0))
          => DOMAIN perms' \subseteq DOMAIN dirs']_vars


----------------------------------------------------------------------------
(* Two app_install invocations of the same multi_instance app, interleaved.
   Nothing in app_install or _installed_instance_number takes a lock, so
   each statement of one invocation may run between two of the other. rin
   holds what the invocations are given, rout the locals of each. *)

Invocations == {1, 2}

\* the app both install, and its id
MULTI == "multi"
MultiId == Catalog[MULTI].id

\* the path each install script books, on the domain d
PathOf(p) == IF p = 1 THEN <<"/", "a">> ELSE <<"/", "b">>

\* what the two invocations meet: whether a first instance is installed
\* already, how each install script ends, and no_remove_on_failure
InterleavedInputs ==
    [first : BOOLEAN, out : [Invocations -> {Ret(0), Ret(1)}], no_remove : BOOLEAN]

\* the locals of an invocation: where it stands, the instance name it
\* selected, install_retcode and the exception that ended it
Local(pc, name, install_retcode, err) ==
    [pc |-> pc, name |-> name, install_retcode |-> install_retcode, err |-> err]

InitInterleaved ==
    /\ rin \in InterleavedInputs
    /\ dirs = IF rin.first
              THEN [Created(NoDirs, MultiId, MULTI) EXCEPT ![MultiId].status = TRUE]
              ELSE NoDirs
    /\ perms = IF rin.first THEN PermissionAdd(NoDirs, MultiId) ELSE NoDirs
    /\ hooks = {}
    /\ call = Idle
    /\ nops = 0
    /\ rout = [p \in Invocations |-> Local("start", <<>>, 0, NoErr)]

\* the invocation moves on
Goes(p, local) ==
    /\ rout' = [rout EXCEPT ![p] = local]
    /\ UNCHANGED <<call, nops, rin>>

\* "Check if app can be forked": the directories are listed and the
\* instance name is formed from the number found
SelectName(p) ==
    /\ rout[p].pc = "start"
    /\ \E ls \in Listings(DOMAIN dirs) :
          Goes(p, Local("named",
                        InstanceName(MultiId, InstalledInstanceNumber(ls, MultiId) + 1),
                        0, NoErr))
    /\ UNCHANGED <<dirs, perms, hooks>>

\* "Create app directory" and "Set initial app settings"
MakeDir(p) ==
    /\ rout[p].pc = "named"
    /\ dirs' = Created(dirs, rout[p].name, MULTI)
    /\ Goes(p, [rout[p] EXCEPT !.pc = "made"])
    /\ UNCHANGED <<perms, hooks>>

\* permission_add of the main permission, which raises when it exists
AddPermission(p) ==
    /\ rout[p].pc = "made"
    /\ IF rout[p].name \in DOMAIN perms
       THEN /\ Goes(p, [rout[p] EXCEPT !.pc = "done", !.err = Err("EINVAL", "permission_add")])
            /\ UNCHANGED perms
       ELSE /\ perms' = PermissionAdd(perms, rout[p].name)
            /\ Goes(p, [rout[p] EXCEPT !.pc = "permitted"])
    /\ UNCHANGED <<dirs, hooks>>

\* the install script: it stores its domain and path in the settings of the
\* instance when it ends with 0 and the directory is there
RunScript(p) ==
    /\ rout[p].pc = "permitted"
    /\ dirs' = IF rin.out[p] = Ret(0) /\ rout[p].name \in DOMAIN dirs
               THEN AppSetting(AppSetting(dirs, rout[p].name, "domain", <<"d">>),
                               rout[p].name, "path", PathOf(p))
               ELSE dirs
    /\ Goes(p, [rout[p] EXCEPT !.pc = "ran", !.install_retcode = InstallRetcode(rin.out[p])])
    /\ UNCHANGED <<perms, hooks>>

\* install_retcode is 0: hooks, status.json, the permission, the
\* synchronization; writing status.json raises when the directory is gone,
\* permission_update when the permission is
CommitInstall(p) ==
    LET name == rout[p].name
        res == Commit(St(dirs, PermissionAdd(perms, name), hooks, <<>>), name, Catalog[MULTI])
    IN  /\ rout[p].pc = "ran"
        /\ rout[p].install_retcode = 0
        /\ IF name \notin DOMAIN dirs
           THEN /\ hooks' = hooks \ {name}
                /\ Goes(p, [rout[p] EXCEPT !.pc = "done", !.err = Err("IOError", "status.json")])
                /\ UNCHANGED <<dirs, perms>>
           ELSE IF name \notin DOMAIN perms /\ "domain" \in DOMAIN dirs[name].settings
           THEN /\ dirs' = res.dirs
                /\ hooks' = res.hooks
                /\ Goes(p, [rout[p] EXCEPT !.pc = "done",
                                           !.err = Err("EINVAL", "permission_update")])
                /\ UNCHANGED perms
           ELSE /\ dirs' = res.dirs
                /\ hooks' = res.hooks
                /\ perms' = [n \in DOMAIN perms |-> res.perms[n]]
                /\ Goes(p, [rout[p] EXCEPT !.pc = "done", !.err = res.err])

\* install_retcode is not 0: the failure branch of the finally clause;
\* rmtree raises when the directory is gone
RollbackInstall(p) ==
    LET name == rout[p].name
        res == Rollback(St(dirs, perms, hooks, <<>>), MultiId, name, 0,
                        rout[p].install_retcode, rin.no_remove, Ret(0))
    IN  /\ rout[p].pc = "ran"
        /\ rout[p].install_retcode # 0
        /\ dirs' = res.dirs
        /\ perms' = res.perms
        /\ hooks' = res.hooks
        /\ Goes(p, [rout[p] EXCEPT !.pc = "done",
                                   !.err = IF name \in DOMAIN dirs THEN res.err
                                           ELSE Err("OSError", "rmtree")])

NextInterleaved ==
    \E p \in Invocations :
        \/ SelectName(p)
        \/ MakeDir(p)
        \/ AddPermission(p)
        \/ RunScript(p)
        \/ CommitInstall(p)
        \/ RollbackInstall(p)

SpecInterleaved == InitInterleaved /\ [][NextInterleaved]_vars

\* the invocation has selected its instance name
Named(p) == rout[p].pc # "start"

\* the invocation has created its directory and has not ended
Holds(p) == rout[p].pc \in {"made", "permitted", "ran"}

\* the step is one of invocation p
StepOf(p) == rout'[p] # rout[p]

\* C37: two interleaved installs of one multi_instance app never have the
\* same instance name selected, and no step of one deletes or overwrites
\* the directory the other has created
C37_InterleavedInstallsApart ==
    [][\A p \in Invocations : \A q \in Invocations \ {p} :
          /\ (Named(p) /\ Named(q))' => (rout[p].name # rout[q].name)'
          /\ (StepOf(p) /\ Holds(q) /\ rout[q].name \in DOMAIN dirs)
                => (/\ rout[q].name \in DOMAIN dirs'
                    /\ dirs'[rout[q].name] = dirs[rout[q].name])]_vars

\* the names differ whenever the second is selected once the directory of
\* the first has been created
C37_ApartAfterCreation ==
    [][\A p \in Invocations : \A q \in Invocations \ {p} :
          (/\ rout[p].pc = "start"
           /\ rout'[p].pc = "named"
           /\ ~(rout[q].pc \in {"start", "named"})
           /\ rout[q].name \in DOMAIN dirs)
             => rout'[p].name # rout[q].name]_vars

\* both invocations selected the same name before either had made its
\* directory, and one has deleted the directory the other had made
C37_Clobbered ==
    /\ rout[1].name = rout[2].name
    /\ rout[1].pc = "done" /\ rout[1].err = Err("EIO", "unexpected_error")
    /\ rout[2].pc = "ran" /\ rout[2].install_retcode = 0
    /\ rout[2].name \notin DOMAIN dirs


----------------------------------------------------------------------------
(* app_setting on its own: the settings of one instance, set, deleted and
   read. Here dirs[app].settings maps a key to a Python value, and rout is
   the last call with what it returned. *)

MaxSettingOps == 3

\* the instance whose settings are kept, and a name that is not installed
SettingApps == {<<"a">>, <<"b">>}

SettingKeys == {"id", "domain", "redirected_urls"}

\* the values given: the id of the instance and a string of digits
SettingValues == {PStr(<<"a">>), PStr(<<"1">>)}

\* yaml.load of a plain scalar: digits make an integer
YamlLoad(value) ==
    IF IsStr(value) /\ IsIntLiteral(value[2]) THEN PInt(ParseInt(value[2])) ELSE value

\* _get_app_settings(app_id) or {}: the stored settings when their id is
\* the instance's, nothing otherwise
GetAppSettings(d, app) ==
    LET settings == d[app].settings
    IN  IF "id" \in DOMAIN settings /\ settings["id"] = PStr(app) THEN settings ELSE NoDirs

\* what a call of app_setting yields: the directories, the value returned
\* and the error raised
Called(d, ret, err) == [dirs |-> d, ret |-> ret, err |-> err]

\* app_setting(app, key, value=value, delete=delete)
AppSettingCall(d, app, key, value, delete) ==
    IF app \notin DOMAIN d THEN Called(d, NONE, Err("EINVAL", "app_not_installed"))
    ELSE LET app_settings == GetAppSettings(d, app)
         IN  IF value = NONE /\ ~delete
             THEN Called(d, IF key \in DOMAIN app_settings THEN app_settings[key] ELSE NONE,
                         NoErr)
             ELSE IF delete /\ key \in DOMAIN app_settings
             THEN Called([d EXCEPT ![app].settings =
                                      [k \in DOMAIN app_settings \ {key} |-> app_settings[k]]],
                         NONE, NoErr)
             ELSE IF key \in {"redirected_urls", "redirected_regex"}
             THEN IF value = NONE
                  THEN Called(d, NONE, Err("AttributeError", "yaml.load"))
                  ELSE Called([d EXCEPT ![app].settings =
                                           DictSet(app_settings, key, YamlLoad(value))],
                              NONE, NoErr)
             ELSE Called([d EXCEPT ![app].settings = DictSet(app_settings, key, value)],
                         NONE, NoErr)

\* a call of app_setting as the properties see it
SettingCall(op, app, key, value, res) ==
    [op |-> op, app |-> app, key |-> key, value |-> value, ret |-> res.ret, err |-> res.err]

InitSetting ==
    /\ dirs \in {[n \in {<<"a">>} |->
                     [settings |-> s, status |-> TRUE, app |-> "single"]] :
                 s \in {[k \in {"id"} |-> PStr(<<"a">>)],
                        [k \in {"id", "domain"} |-> PStr(<<"a">>)]}}
    /\ perms = NoDirs
    /\ hooks = {}
    /\ call = Idle
    /\ nops = 0
    /\ rin = <<>>
    /\ rout = SettingCall("none", <<>>, "", NONE, Called(dirs, NONE, NoErr))

Settles(op, app, key, value, res) ==
    /\ dirs' = res.dirs
    /\ rout' = SettingCall(op, app, key, value, res)
    /\ nops' = nops + 1
    /\ UNCHANGED <<perms, hooks, call, rin>>

\* app_setting(app, key, value)
SettingSet ==
    /\ nops < MaxSettingOps
    /\ \E app \in SettingApps, key \in SettingKeys, value \in SettingValues :
          Settles("set", app, key, value, AppSettingCall(dirs, app, key, value, FALSE))

\* app_setting(app, key, delete=True)
SettingDelete ==
    /\ nops < MaxSettingOps
    /\ \E app \in SettingApps, key \in SettingKeys :
          Settles("delete", app, key, NONE, AppSettingCall(dirs, app, key, NONE, TRUE))

\* app_setting(app, key)
SettingGet ==
    /\ nops < MaxSettingOps
    /\ \E app \in SettingApps, key \in SettingKeys :
          Settles("get", app, key, NONE, AppSettingCall(dirs, app, key, NONE, FALSE))

NextSetting == SettingSet \/ SettingDelete \/ SettingGet

SpecSetting == InitSetting /\ [][NextSetting]_vars

\* the step is a call of app_setting on the installed instance
SettingStep(op) == nops' = nops + 1 /\ rout'.op = op /\ rout'.app \in DOMAIN dirs

\* what app_setting(app, key) returns on the directories d
Got(d, app, key) == AppSettingCall(d, app, key, NONE, FALSE).ret

\* the keys stored for the instance, and those but one
Stored(d, app) == d[app].settings
Others(d, app, key) == [k \in DOMAIN Stored(d, app) \ {key} |-> Stored(d, app)[k]]

\* C38: after setting a key to a value, getting it returns the value and
\* every other key is as before; after deleting a key, it is absent, also
\* when it was absent before; getting a missing key returns None; getting
\* changes nothing
C38_ConsistentStore ==
    [][/\ SettingStep("set")
          => (/\ Got(dirs', rout'.app, rout'.key) = rout'.value
              /\ Others(dirs', rout'.app, rout'.key) = Others(dirs, rout'.app, rout'.key))
       /\ SettingStep("delete")
          => (/\ rout'.key \notin DOMAIN Stored(dirs', rout'.app)
              /\ Others(dirs', rout'.app, rout'.key) = Others(dirs, rout'.app, rout'.key))
       /\ SettingStep("get")
          => (/\ dirs' = dirs
              /\ rout'.key \notin DOMAIN Stored(dirs, rout'.app) => rout'.ret = NONE)]_vars

\* the stored settings carry the id of the instance, before and after
IdKept(app) ==
    /\ app \in DOMAIN dirs
    /\ GetAppSettings(dirs, app) = Stored(dirs, app)
    /\ GetAppSettings(dirs', app) = Stored(dirs', app)

\* setting holds where the id is kept and the key is not one that is
\* parsed as YAML
C38_SetThenGet ==
    [][(/\ SettingStep("set")
        /\ IdKept(rout'.app)
        /\ rout'.key \notin {"redirected_urls", "redirected_regex"})
          => (/\ Got(dirs', rout'.app, rout'.key) = rout'.value
              /\ Others(dirs', rout'.app, rout'.key) = Others(dirs, rout'.app, rout'.key))]_vars

\* deleting holds where the id is kept and the key was stored
C38_DeleteStored ==
    [][(/\ SettingStep("delete")
        /\ IdKept(rout'.app)
        /\ rout'.key \in DOMAIN Stored(dirs, rout'.app))
          => (/\ rout'.key \notin DOMAIN Stored(dirs', rout'.app)
              /\ Others(dirs', rout'.app, rout'.key) = Others(dirs, rout'.app, rout'.key))]_vars

\* getting never writes, and a key that is not stored reads as None
C38_GetReadsOnly ==
    [][(nops' = nops + 1 /\ rout'.op = "get")
          => (/\ dirs' = dirs
              /\ (rout'.app \in DOMAIN dirs /\ rout'.key \notin DOMAIN Stored(dirs, rout'.app))
                    => rout'.ret = NONE)]_vars

\* deleting a key that is not stored stores it, with the value None
C38_DeleteOfMissingStores ==
    [][(/\ SettingStep("delete")
        /\ IdKept(rout'.app)
        /\ rout'.key = "domain"
        /\ rout'.key \notin DOMAIN Stored(dirs, rout'.app))
          => (/\ rout'.key \in DOMAIN Stored(dirs', rout'.app)
              /\ Stored(dirs', rout'.app)[rout'.key] = NONE)]_vars


----------------------------------------------------------------------------
(* The uid and gid numbers of user_create and user_group_add: the numbers
   in use, the numbers random.randint gives, the number chosen *)

\* random.randint(MinUid, MaxUid); the upper end stands for 99999
MinUid == 200
MaxUid == 202
MaxDraws == 2

UidNumbers == MinUid..MaxUid

\* pw_uid of pwd.getpwall(), gr_gid of grp.getgrall(), and what successive
\* calls of random.randint return
UidInputs ==
    [all_uid : SUBSET UidNumbers,
     all_gid : SUBSET UidNumbers,
     draws : [1..MaxDraws -> UidNumbers]]

\* uid not in all_uid, the set holding the numbers as integers
NotIn(uid, numbers) == \A n \in numbers : ~PyEq(uid, PInt(n))

\* the while loop: str(random.randint(...)) is drawn until it is found in
\* none of the sets; NONE when the draws at hand end before the loop does
RECURSIVE RandomId(_, _)
RandomId(draws, sets) ==
    IF draws = <<>> THEN NONE
    ELSE LET uid == PStr(Str(Head(draws)))
         IN  IF \A numbers \in sets : NotIn(uid, numbers)
             THEN uid
             ELSE RandomId(Tail(draws), sets)

InitUid ==
    /\ dirs = NoDirs
    /\ perms = NoDirs
    /\ hooks = {}
    /\ call = Idle
    /\ nops = 0
    /\ rin \in UidInputs
    /\ rout = Pending

\* "Get random UID/GID" of user_create
UserCreateUid ==
    /\ rout = Pending
    /\ rout' = [by |-> "user_create", id |-> RandomId(rin.draws, {rin.all_uid, rin.all_gid})]
    /\ UNCHANGED <<dirs, perms, hooks, call, nops, rin>>

\* "Get random GID" of user_group_add, called without gid
GroupAddGid ==
    /\ rout = Pending
    /\ rout' = [by |-> "user_group_add", id |-> RandomId(rin.draws, {rin.all_gid})]
    /\ UNCHANGED <<dirs, perms, hooks, call, nops, rin>>

NextUid == UserCreateUid \/ GroupAddGid

SpecUid == InitUid /\ [][NextUid]_vars

\* the loop has ended with a number
Drawn == rout # Pending /\ rout.id # NONE

\* the numbers the operation has to stay clear of
InUse == IF rout.by = "user_create" THEN rin.all_uid \cup rin.all_gid ELSE rin.all_gid

\* C39: the uid/gid number user_create assigns is the number of no system
\* user or group, the gid number user_group_add picks is that of no group:
\* the loop exits only with a number that is not in use
C39_NumberNotInUse == Drawn => ParseInt(rout.id[2]) \notin InUse

\* the loop exits with its first draw, whatever is in use
C39_FirstDrawTaken ==
    rout # Pending => rout.id = PStr(Str(rin.draws[1]))


----------------------------------------------------------------------------
(* Users and groups: user_create, user_delete and the group operations as
   a caller without force reaches them. rin is the system the directory
   runs on, rout the directory and the last call made. Passwords and mail
   addresses are taken to be acceptable. *)

MaxUserOps == 3

\* the names callers give to users; "sudo" may also be a group or a user of
\* the system's own files
UserNames == {"bob", "sudo"}
ALL_USERS == "all_users"
ADMINS == "admins"
GroupNames == UserNames \cup {ALL_USERS, ADMINS, "g"}

\* no user given for add_user or remove_user
NoUser == ""

\* the system: the users and groups of its own files, and whether the
\* directory server drops the memberships of an entry that is removed
\* (nothing in user_delete asks for it)
UserSystems ==
    [local_users : SUBSET {"sudo"}, local_groups : SUBSET {"sudo"}, refint : BOOLEAN]

\* the directory: the users, each group with its members, and the error the
\* last operation raised
Directory(users, groups, err) == [users |-> users, groups |-> groups, err |-> err]

Refused(d, err) == Directory(d.users, d.groups, err)

\* pwd.getpwall() and grp.getgrall(): the local accounts and the directory's
SystemUserNames(d, sys) == sys.local_users \cup d.users
SystemGroupNames(d, sys) == sys.local_groups \cup DOMAIN d.groups

\* user_group_add(auth, groupname, gid)
UserGroupAdd(d, sys, groupname) ==
    IF groupname \in DOMAIN d.groups
    THEN Refused(d, Err("EEXIST", "group_name_already_exist"))
    ELSE IF groupname \in SystemGroupNames(d, sys)
    THEN Refused(d, Err("EEXIST", "system_groupname_exists"))
    ELSE Directory(d.users,
                   [g \in DOMAIN d.groups \cup {groupname} |->
                       IF g = groupname THEN {} ELSE d.groups[g]],
                   NoErr)

\* user_group_delete(auth, groupname, force)
UserGroupDelete(d, groupname, force) ==
    IF ~force /\ (groupname \in {ALL_USERS, ADMINS} \/ groupname \in d.users)
    THEN Refused(d, Err("EPERM", "group_deletion_not_allowed"))
    ELSE IF groupname \notin DOMAIN d.groups
    THEN Refused(d, Err("169", "group_deletion_failed"))
    ELSE Directory(d.users, [g \in DOMAIN d.groups \ {groupname} |-> d.groups[g]], NoErr)

\* user_group_update(auth, groupname, add_user, remove_user, force)
UserGroupUpdate(d, groupname, add_user, remove_user, force) ==
    IF groupname \in {ALL_USERS, ADMINS} /\ ~force
    THEN Refused(d, Err("EINVAL", "edit_group_not_allowed"))
    ELSE IF groupname \notin DOMAIN d.groups
    THEN Refused(d, Err("EINVAL", "group_unknown"))
    ELSE IF add_user # NoUser /\ add_user \notin d.users
    THEN Refused(d, Err("EINVAL", "user_unknown"))
    ELSE IF remove_user # NoUser /\ remove_user = groupname
    THEN Refused(d, Err("EINVAL", "remove_user_of_group_not_allowed"))
    ELSE LET member == d.groups[groupname]
             added == member \cup (IF add_user # NoUser THEN {add_user} ELSE {})
         IN  Directory(d.users,
                       [d.groups EXCEPT ![groupname] = added \ (member \cap {remove_user})],
                       NoErr)

\* user_create(auth, username, ...): the checks, the user, its group, its
\* membership of its group and of all_users; what raises ends it there
UserCreate(d, sys, username) ==
    LET added == Directory(d.users \cup {username}, d.groups, NoErr)
        grouped == UserGroupAdd(added, sys, username)
        own == UserGroupUpdate(grouped, username, username, NoUser, TRUE)
    IN  IF username \in d.users \/ username \in DOMAIN d.groups
        THEN Refused(d, Err("EEXIST", "ldap_attribute_already_exists"))
        ELSE IF username \in SystemUserNames(d, sys)
        THEN Refused(d, Err("EEXIST", "system_username_exists"))
        ELSE IF grouped.err # NoErr THEN grouped
        ELSE IF own.err # NoErr THEN own
        ELSE UserGroupUpdate(own, ALL_USERS, username, NoUser, TRUE)

\* user_delete(auth, username): the user, then its group
UserDelete(d, sys, username) ==
    LET left == IF sys.refint THEN [g \in DOMAIN d.groups |-> d.groups[g] \ {username}]
                ELSE d.groups
    IN  IF username \notin d.users
        THEN Refused(d, Err("169", "user_deletion_failed"))
        ELSE UserGroupDelete(Directory(d.users \ {username}, left, NoErr), username, TRUE)

\* a call as the properties see it
UserCall(op, name, add_user, remove_user) ==
    [op |-> op, name |-> name, add_user |-> add_user, remove_user |-> remove_user]

InitUsers ==
    /\ dirs = NoDirs
    /\ perms = NoDirs
    /\ hooks = {}
    /\ call = Idle
    /\ nops = 0
    /\ rin \in UserSystems
    /\ rout = [dir |-> Directory({}, [g \in {ALL_USERS, ADMINS} |-> {}], NoErr),
               last |-> UserCall("none", "", NoUser, NoUser)]

Registers(d, last) ==
    /\ nops' = nops + 1
    /\ rout' = [dir |-> d, last |-> last]
    /\ UNCHANGED <<dirs, perms, hooks, call, rin>>

DoUserCreate ==
    /\ nops < MaxUserOps
    /\ \E username \in UserNames :
           Registers(UserCreate(rout.dir, rin, username),
                     UserCall("user_create", username, NoUser, NoUser))

DoUserDelete ==
    /\ nops < MaxUserOps
    /\ \E username \in UserNames :
           Registers(UserDelete(rout.dir, rin, username),
                     UserCall("user_delete", username, NoUser, NoUser))

DoGroupAdd ==
    /\ nops < MaxUserOps
    /\ \E groupname \in GroupNames :
           Registers(UserGroupAdd(rout.dir, rin, groupname),
                     UserCall("user_group_add", groupname, NoUser, NoUser))

DoGroupDelete ==
    /\ nops < MaxUserOps
    /\ \E groupname \in GroupNames :
           Registers(UserGroupDelete(rout.dir, groupname, FALSE),
                     UserCall("user_group_delete", groupname, NoUser, NoUser))

DoGroupUpdate ==
    /\ nops < MaxUserOps
    /\ \E groupname \in GroupNames, add_user \in UserNames \cup {NoUser},
          remove_user \in UserNames \cup {NoUser} :
           Registers(UserGroupUpdate(rout.dir, groupname, add_user, remove_user, FALSE),
                     UserCall("user_group_update", groupname, add_user, remove_user))

NextUsers == DoUserCreate \/ DoUserDelete \/ DoGroupAdd \/ DoGroupDelete \/ DoGroupUpdate

SpecUsers == InitUsers /\ [][NextUsers]_vars

\* every user has a group of its name that holds it and is in all_users,
\* and the groups hold users only
UsersGrouped(d) ==
    /\ \A u \in d.users :
          /\ u \in DOMAIN d.groups
          /\ u \in d.groups[u]
          /\ ALL_USERS \in DOMAIN d.groups
          /\ u \in d.groups[ALL_USERS]
    /\ \A g \in DOMAIN d.groups : d.groups[g] \subseteq d.users

\* without force all_users and admins are left as they are, the group of a
\* user is not deleted and a user stays in its own group
GroupsGuarded ==
    /\ rout'.last.op \in {"user_group_update", "user_group_delete"}
          => (/\ \A g \in {ALL_USERS, ADMINS} :
                    g \in DOMAIN rout'.dir.groups /\ rout'.dir.groups[g] = rout.dir.groups[g]
              /\ \A u \in rout.dir.users \cap DOMAIN rout.dir.groups :
                    /\ u \in DOMAIN rout'.dir.groups
                    /\ u \in rout.dir.groups[u] => u \in rout'.dir.groups[u])

\* C40: after every user_create, user_delete and unforced group operation
\* each user has its own group, is in it and in all_users, and every member
\* of a group is a user; the unforced group operations leave all_users and
\* admins alone, delete no user's group and take no user out of its own
C40_UsersAndGroupsConsistent ==
    [][UsersGrouped(rout'.dir) /\ GroupsGuarded]_vars

\* the guards of the unforced group operations hold
C40_GroupsGuarded == [][GroupsGuarded]_vars

\* the whole holds on a system whose own groups all have a user of their
\* name and whose directory server drops the memberships of removed entries
C40_WithIntegrity ==
    [][(rin.refint /\ rin.local_groups \subseteq rin.local_users)
          => (UsersGrouped(rout'.dir) /\ GroupsGuarded)]_vars

\* a user_create that raised after adding the user leaves the user without
\* group and outside all_users
C40_UserWithoutGroup ==
    /\ rout.last.op = "user_create"
    /\ rout.dir.err = Err("EEXIST", "system_groupname_exists")
    /\ rout.last.name \in rout.dir.users
    /\ rout.last.name \notin DOMAIN rout.dir.groups
    /\ rout.last.name \notin rout.dir.groups[ALL_USERS]

====
